---- MODULE Spec2Model ----
(***************************************************************************)
(* A model of the boxing package: the boxer store (boxers_model.py), the   *)
(* ring (ring_model.py) and the randomness source (api_utils.py).          *)
(*                                                                         *)
(* Units.  Python floats are modelled as exact integers in hundredths:     *)
(* a reach is kept in tenths of an inch, so that reach / 10 is a whole     *)
(* number of hundredths; a fighting skill, a skill difference and a random *)
(* sample are kept in hundredths.  A probability p is kept as              *)
(* ceiling(100 * p), the number of hundredths strictly below p, which      *)
(* decides sample < p exactly for every sample that is a whole number of   *)
(* hundredths (the precision the random.org URL asks for, dec=2).          *)
(*                                                                         *)
(* Every call of the package is one action: the calls are made one at a    *)
(* time.  The variable last records what the most recent call did: its     *)
(* name, its argument, the error it raised, the value it returned and the  *)
(* calls it made on its collaborators, in order.  The specifications of    *)
(* calls made at the same time take a call statement by statement; the     *)
(* variable threads holds the calls in progress.                           *)
(***************************************************************************)
EXTENDS Integers, Sequences, FiniteSets, TLC

VARIABLES boxers, ring, last, threads

vars == <<boxers, ring, last, threads>>

(***************************************************************************)
(* Bounds of the model.                                                    *)
(***************************************************************************)
\* A call that would take a fights counter beyond MaxFights is not made.
MaxFights == 2

\* the ids the table hands out
Ids == {1, 2}

(***************************************************************************)
(* Inputs the callers draw from.                                           *)
(***************************************************************************)
Names == {"Ali", "Bob"}

WeightInputs == {124, 150}

HeightInputs == {70}

\* tenths of an inch: 70.0
ReachInputs == {700}

AgeInputs == {30}

ResultInputs == {"win", "loss", "draw"}

SortByInputs == {"wins", "win_pct", "name"}

(***************************************************************************)
(* Errors, by the exception type and the message the code raises.          *)
(***************************************************************************)
NoError == "none"

ErrTwoBoxers == "ValueError: There must be two boxers to start a fight."

ErrRingFull == "ValueError: Ring is full, cannot add more boxers."

ErrInvalidType == "TypeError: Invalid type: Expected 'Boxer'"

ErrNotFound == "ValueError: Boxer not found."

ErrInvalidResult == "ValueError: Invalid result. Expected 'win' or 'loss'."

ErrInvalidWeight == "ValueError: Invalid weight. Must be at least 125."

ErrInvalidHeight == "ValueError: Invalid height. Must be greater than 0."

ErrInvalidReach == "ValueError: Invalid reach. Must be greater than 0."

ErrInvalidAge == "ValueError: Invalid age. Must be between 18 and 40."

ErrAlreadyExists == "ValueError: Boxer already exists"

ErrWeightBelowClasses == "ValueError: Invalid weight. Weight must be at least 125."

ErrInvalidSortBy == "ValueError: Invalid sort_by parameter"

ErrTimedOut == "RuntimeError: Request to random.org timed out."

ErrRequestFailed == "RuntimeError: Request to random.org failed"

ErrInvalidResponse == "ValueError: Invalid response from random.org"

\* Python's None
None == "None"

(***************************************************************************)
(* api_utils.py: get_random.  A response of the service is what            *)
(* requests.get does: it times out, fails to connect, or answers with a    *)
(* status and a text.  A text is a sequence of characters.                 *)
(***************************************************************************)
Digits == <<"0", "1", "2", "3", "4", "5", "6", "7", "8", "9">>

IsDigit(c) == \E i \in 1..10 : Digits[i] = c

DigitValue(c) == (CHOOSE i \in 1..10 : Digits[i] = c) - 1

IsSpace(c) == c \in {" ", "\n", "\t", "\r"}

\* str.strip(): the text without its leading and trailing whitespace
RECURSIVE LStrip(_)
LStrip(s) == IF s # <<>> /\ IsSpace(Head(s)) THEN LStrip(Tail(s)) ELSE s

RECURSIVE RStrip(_)
RStrip(s) ==
    IF s # <<>> /\ IsSpace(s[Len(s)]) THEN RStrip(SubSeq(s, 1, Len(s) - 1)) ELSE s

Strip(s) == RStrip(LStrip(s))

\* the number a sequence of digits writes
RECURSIVE DigitsValue(_)
DigitsValue(s) ==
    IF s = <<>> THEN 0
    ELSE 10 * DigitsValue(SubSeq(s, 1, Len(s) - 1)) + DigitValue(s[Len(s)])

Unsigned(s) == IF s # <<>> /\ Head(s) \in {"+", "-"} THEN Tail(s) ELSE s

DotPositions(s) == {i \in 1..Len(s) : s[i] = "."}

\* float(text) accepts a sign, digits and at most one point, with a digit
\* on at least one side of it.  (The texts of the model carry no exponent,
\* "inf", "nan" or underscore, the other forms float() reads.)
IsFloatText(s) ==
    LET u == Unsigned(s) IN
    /\ \A i \in 1..Len(u) : IsDigit(u[i]) \/ u[i] = "."
    /\ Cardinality(DotPositions(u)) <= 1
    /\ \E i \in 1..Len(u) : IsDigit(u[i])

\* float(text) in hundredths; the texts of the model carry at most two
\* fractional digits.
FloatValue(s) ==
    LET u == Unsigned(s)
        dot == IF DotPositions(u) = {} THEN Len(u) + 1
               ELSE CHOOSE i \in DotPositions(u) : TRUE
        whole == SubSeq(u, 1, dot - 1)
        frac == SubSeq(u, dot + 1, Len(u))
        frac2 == IF Len(frac) = 0 THEN <<"0", "0">>
                 ELSE IF Len(frac) = 1 THEN frac \o <<"0">>
                 ELSE SubSeq(frac, 1, 2)
        magnitude == 100 * DigitsValue(whole) + DigitsValue(frac2)
    IN  IF s # <<>> /\ Head(s) = "-" THEN 0 - magnitude ELSE magnitude

\* the text random.org answers for a sample of k hundredths: "0.30\n"
SampleText(k) ==
    <<Digits[(k \div 100) + 1], ".", Digits[((k \div 10) % 10) + 1],
      Digits[(k % 10) + 1], "\n">>

\* the samples the service hands out in the model, in hundredths
SampleInputs == {0, 30, 49, 50, 73, 74, 99}

Responses ==
    {[kind |-> "Timeout", status |-> 0, text |-> <<>>],
     [kind |-> "ConnectionError", status |-> 0, text |-> <<>>],
     [kind |-> "Response", status |-> 500, text |-> SampleText(30)],
     [kind |-> "Response", status |-> 200, text |-> <<"x">>],
     [kind |-> "Response", status |-> 200, text |-> <<>>],
     [kind |-> "Response", status |-> 200, text |-> SampleText(150)]}
    \cup {[kind |-> "Response", status |-> 200, text |-> SampleText(k)] :
            k \in SampleInputs}

\* no request was made
NoResponse == [kind |-> "None", status |-> 0, text |-> <<>>]

\* a get_random that answers 0.5 when it cannot read the service's answer
get_random_with_default(resp) ==
    IF resp.kind = "Timeout"
    THEN [err |-> ErrTimedOut, val |-> 0]
    ELSE IF resp.kind # "Response" \/ resp.status >= 400
    THEN [err |-> ErrRequestFailed, val |-> 0]
    ELSE LET random_number_str == Strip(resp.text) IN
         IF IsFloatText(random_number_str)
         THEN [err |-> NoError, val |-> FloatValue(random_number_str)]
         ELSE [err |-> NoError, val |-> 50]

\* a get_random that asks a second time when the first request timed out
get_random_retrying(resp) ==
    IF resp.kind = "Timeout"
    THEN [err |-> ErrTimedOut, val |-> 0, requests |-> 2]
    ELSE IF resp.kind # "Response" \/ resp.status >= 400
    THEN [err |-> ErrRequestFailed, val |-> 0, requests |-> 1]
    ELSE LET random_number_str == Strip(resp.text) IN
         IF IsFloatText(random_number_str)
         THEN [err |-> NoError, val |-> FloatValue(random_number_str),
               requests |-> 1]
         ELSE [err |-> ErrInvalidResponse, val |-> 0, requests |-> 1]

\* get_random(), the service answering resp: [err, val, requests]; val is
\* the sample in hundredths when err is NoError, requests the number of
\* requests made.
get_random(resp) ==
    IF resp.kind = "Timeout"
    THEN [err |-> ErrTimedOut, val |-> 0, requests |-> 1]
    ELSE IF resp.kind # "Response" \/ resp.status >= 400
    THEN [err |-> ErrRequestFailed, val |-> 0, requests |-> 1]
    ELSE LET random_number_str == Strip(resp.text) IN
         IF IsFloatText(random_number_str)
         THEN [err |-> NoError, val |-> FloatValue(random_number_str),
               requests |-> 1]
         ELSE [err |-> ErrInvalidResponse, val |-> 0, requests |-> 1]

(***************************************************************************)
(* boxers_model.py.  The store is the boxers table: a function from the    *)
(* ids in use to rows [name, weight, height, reach, age, fights, wins].    *)
(* Every function of the module opens its own connection and commits       *)
(* before it returns, so a store operation is [store, err]: the table      *)
(* after the call and the error raised (NoError when it returns).          *)
(***************************************************************************)
\* the counters of a row the INSERT gives no value for (the table's defaults)
NewRowCounters == [fights |-> 0, wins |-> 0]

\* the ids the table may give a new row: any id not in use
FreshIds(store) == Ids \ DOMAIN store

\* a removal that gives the rows left their counters anew
Without_resetting(store, id) ==
    [i \in (DOMAIN store) \ {id} |->
        [store[i] EXCEPT !.fights = 0, !.wins = 0]]

\* the store with the row of id removed
Without(store, id) == [i \in (DOMAIN store) \ {id} |-> store[i]]

\* the store with row under id
With(store, id, row) ==
    [i \in (DOMAIN store) \cup {id} |-> IF i = id THEN row ELSE store[i]]

\* Boxer(id=row[0], name=row[1], ...): the dataclass leaves weight_class at
\* its default, __post_init__ being a function of the module, not of the
\* class.
Boxer(id, row) ==
    [class |-> "Boxer", id |-> id, name |-> row.name, weight |-> row.weight,
     height |-> row.height, reach |-> row.reach, age |-> row.age,
     weight_class |-> None]

\* a value that is not a Boxer: the string of test_enter_ring_invalid_type
NotABoxer ==
    [class |-> "str", id |-> 0, name |-> "Not a boxer", weight |-> 0,
     height |-> 0, reach |-> 0, age |-> 0, weight_class |-> None]

\* no value: the argument of a call that takes none, the result of a call
\* that raised
NoValue ==
    [class |-> "NoneType", id |-> 0, name |-> None, weight |-> 0,
     height |-> 0, reach |-> 0, age |-> 0, weight_class |-> None]

\* an update that counts a win without counting the fight
UpdatedRow_wins_only(row, result) ==
    IF result = "win"
    THEN [row EXCEPT !.wins = @ + 1]
    ELSE [row EXCEPT !.fights = @ + 1]

\* an update that counts a win whatever the result
UpdatedRow_win_always(row, result) ==
    [row EXCEPT !.fights = @ + 1, !.wins = @ + 1]

\* UPDATE boxers SET fights = fights + 1 [, wins = wins + 1]
UpdatedRow(row, result) ==
    IF result = "win"
    THEN [row EXCEPT !.fights = @ + 1, !.wins = @ + 1]
    ELSE [row EXCEPT !.fights = @ + 1]

\* an update_boxer_stats that looks the boxer up before it checks the result
update_boxer_stats_lookup_first(store, boxer_id, result) ==
    IF boxer_id \notin DOMAIN store
    THEN [store |-> store, err |-> ErrNotFound]
    ELSE IF result \notin {"win", "loss"}
    THEN [store |-> store, err |-> ErrInvalidResult]
    ELSE [store |-> With(store, boxer_id, UpdatedRow(store[boxer_id], result)),
          err |-> NoError]

\* update_boxer_stats: [store, err]
update_boxer_stats(store, boxer_id, result) ==
    IF result \notin {"win", "loss"}
    THEN [store |-> store, err |-> ErrInvalidResult]
    ELSE IF boxer_id \notin DOMAIN store
    THEN [store |-> store, err |-> ErrNotFound]
    ELSE [store |-> With(store, boxer_id, UpdatedRow(store[boxer_id], result)),
          err |-> NoError]

\* checks that begin with the age
ValidationError_age_first(weight, height, reach, age) ==
    IF ~(18 <= age /\ age <= 40) THEN ErrInvalidAge
    ELSE IF weight < 125 THEN ErrInvalidWeight
    ELSE IF height <= 0 THEN ErrInvalidHeight
    ELSE IF reach <= 0 THEN ErrInvalidReach
    ELSE NoError

\* checks that leave out the weight
ValidationError_weight_unchecked(weight, height, reach, age) ==
    IF height <= 0 THEN ErrInvalidHeight
    ELSE IF reach <= 0 THEN ErrInvalidReach
    ELSE IF ~(18 <= age /\ age <= 40) THEN ErrInvalidAge
    ELSE NoError

\* the first check of create_boxer that fails, NoError when all pass
ValidationError(weight, height, reach, age) ==
    IF weight < 125 THEN ErrInvalidWeight
    ELSE IF height <= 0 THEN ErrInvalidHeight
    ELSE IF reach <= 0 THEN ErrInvalidReach
    ELSE IF ~(18 <= age /\ age <= 40) THEN ErrInvalidAge
    ELSE NoError

NameExists(store, name) == \E i \in DOMAIN store : store[i].name = name

\* a create_boxer that replaces the stored boxer of the same name (INSERT OR
\* REPLACE), the new row taking that boxer's id
create_boxer_replacing(store, new_id, name, weight, height, reach, age) ==
    LET row == [name |-> name, weight |-> weight, height |-> height,
                reach |-> reach, age |-> age,
                fights |-> NewRowCounters.fights,
                wins |-> NewRowCounters.wins]
    IN  IF ValidationError(weight, height, reach, age) # NoError
        THEN [store |-> store,
              err |-> ValidationError(weight, height, reach, age),
              executed |-> <<>>]
        ELSE IF NameExists(store, name)
        THEN [store |-> [i \in DOMAIN store |->
                            IF store[i].name = name THEN row ELSE store[i]],
              err |-> NoError, executed |-> <<"INSERT">>]
        ELSE [store |-> With(store, new_id, row), err |-> NoError,
              executed |-> <<"INSERT">>]

\* create_boxer, the table giving the new row the id new_id: [store, err,
\* executed]; executed are the statements it ran on the table, in order
create_boxer(store, new_id, name, weight, height, reach, age) ==
    IF ValidationError(weight, height, reach, age) # NoError
    THEN [store |-> store, err |-> ValidationError(weight, height, reach, age),
          executed |-> <<>>]
    ELSE IF NameExists(store, name)
    THEN [store |-> store, err |-> ErrAlreadyExists,
          executed |-> <<"SELECT">>]
    ELSE [store |-> With(store, new_id,
                         [name |-> name, weight |-> weight, height |-> height,
                          reach |-> reach, age |-> age,
                          fights |-> NewRowCounters.fights,
                          wins |-> NewRowCounters.wins]),
          err |-> NoError, executed |-> <<"SELECT", "INSERT">>]

\* a delete_boxer whose DELETE has no WHERE clause
delete_boxer_every_row(store, boxer_id) ==
    IF boxer_id \notin DOMAIN store
    THEN [store |-> store, err |-> ErrNotFound]
    ELSE [store |-> <<>>, err |-> NoError]

\* delete_boxer: [store, err]
delete_boxer(store, boxer_id) ==
    IF boxer_id \notin DOMAIN store
    THEN [store |-> store, err |-> ErrNotFound]
    ELSE [store |-> Without(store, boxer_id), err |-> NoError]

\* a get_weight_class whose bands begin above their thresholds
get_weight_class_exclusive(weight) ==
    IF weight > 203 THEN [err |-> NoError, ret |-> "HEAVYWEIGHT"]
    ELSE IF weight > 166 THEN [err |-> NoError, ret |-> "MIDDLEWEIGHT"]
    ELSE IF weight > 133 THEN [err |-> NoError, ret |-> "LIGHTWEIGHT"]
    ELSE IF weight > 125 THEN [err |-> NoError, ret |-> "FEATHERWEIGHT"]
    ELSE [err |-> ErrWeightBelowClasses, ret |-> None]

\* get_weight_class: [err, ret]
get_weight_class(weight) ==
    IF weight >= 203 THEN [err |-> NoError, ret |-> "HEAVYWEIGHT"]
    ELSE IF weight >= 166 THEN [err |-> NoError, ret |-> "MIDDLEWEIGHT"]
    ELSE IF weight >= 133 THEN [err |-> NoError, ret |-> "LIGHTWEIGHT"]
    ELSE IF weight >= 125 THEN [err |-> NoError, ret |-> "FEATHERWEIGHT"]
    ELSE [err |-> ErrWeightBelowClasses, ret |-> None]

\* get_boxer_by_id: [err, ret]
get_boxer_by_id(store, boxer_id) ==
    IF boxer_id \in DOMAIN store
    THEN [err |-> NoError, ret |-> Boxer(boxer_id, store[boxer_id])]
    ELSE [err |-> ErrNotFound, ret |-> NoValue]

\* get_boxer_by_name: [err, ret]; fetchone() gives the first row of the
\* name, the one of the lowest id
get_boxer_by_name(store, boxer_name) ==
    LET found == {i \in DOMAIN store : store[i].name = boxer_name} IN
    IF found # {}
    THEN LET first == CHOOSE i \in found : \A j \in found : i <= j
         IN  [err |-> NoError, ret |-> Boxer(first, store[first])]
    ELSE [err |-> ErrNotFound, ret |-> NoValue]

\* a percentage cut off after its first decimal place
WinPct_truncating(wins, fights) == (1000 * wins) \div fights

\* round(wins * 1.0 / fights * 100, 1), in tenths of a percent; round()
\* takes a value halfway between two tenths to the even one
WinPct(wins, fights) ==
    LET q == (1000 * wins) \div fights
        r == (1000 * wins) % fights
    IN  IF 2 * r < fights THEN q
        ELSE IF 2 * r > fights THEN q + 1
        ELSE IF q % 2 = 0 THEN q ELSE q + 1

\* one dictionary of the leaderboard
LeaderboardRow(id, row) ==
    [id |-> id, name |-> row.name, weight |-> row.weight,
     height |-> row.height, reach |-> row.reach, age |-> row.age,
     weight_class |-> get_weight_class(row.weight).ret,
     fights |-> row.fights, wins |-> row.wins,
     win_pct |-> WinPct(row.wins, row.fights)]

\* row a may stand before row b under ORDER BY wins DESC, or under ORDER BY
\* win_pct DESC, win_pct being wins * 1.0 / fights
MayPrecede(a, b, sort_by) ==
    IF sort_by = "wins" THEN a.wins >= b.wins
    ELSE a.wins * b.fights >= b.wins * a.fights

\* the orders in which the SELECT may return the ids: every arrangement of
\* the rows WHERE fights > 0 that the ORDER BY allows (rows equal in the
\* key come in either order)
SelectedOrders(store, sort_by) ==
    LET chosen == {i \in DOMAIN store : store[i].fights > 0}
        n == Cardinality(chosen)
    IN  {s \in [1..n -> chosen] :
            /\ \A j, k \in 1..n : j # k => s[j] # s[k]
            /\ \A j, k \in 1..n :
                  j < k => MayPrecede(store[s[j]], store[s[k]], sort_by)}

\* a leaderboard in ascending order
get_leaderboard_ascending(store, sort_by, order) ==
    IF sort_by \notin {"win_pct", "wins"}
    THEN [err |-> ErrInvalidSortBy, ret |-> <<>>, executed |-> <<>>]
    ELSE [err |-> NoError,
          ret |-> [k \in 1..Len(order) |->
                      LeaderboardRow(order[Len(order) + 1 - k],
                                     store[order[Len(order) + 1 - k]])],
          executed |-> <<"SELECT">>]

\* get_leaderboard, the SELECT returning the ids in the order order, one
\* of SelectedOrders: [err, ret, executed].  An error of get_weight_class
\* on a row's weight leaves get_leaderboard.
get_leaderboard(store, sort_by, order) ==
    IF sort_by \notin {"win_pct", "wins"}
    THEN [err |-> ErrInvalidSortBy, ret |-> <<>>, executed |-> <<>>]
    ELSE IF \E k \in 1..Len(order) :
                get_weight_class(store[order[k]].weight).err # NoError
    THEN [err |-> ErrWeightBelowClasses, ret |-> <<>>,
          executed |-> <<"SELECT">>]
    ELSE [err |-> NoError,
          ret |-> [k \in 1..Len(order) |->
                      LeaderboardRow(order[k], store[order[k]])],
          executed |-> <<"SELECT">>]

(***************************************************************************)
(* ring_model.py: RingModel.  self.ring is a sequence of at most two       *)
(* values.  An event is one call a method makes on a collaborator:         *)
(* [fn, id, tag, err, val], the function, the boxer id and result tag of a *)
(* stat update, the error the call raised and the value it returned.       *)
(***************************************************************************)
Event(fn, id, tag, err, val) ==
    [fn |-> fn, id |-> id, tag |-> tag, err |-> err, val |-> val]

get_boxers(r) == r

\* a clear_ring that never clears
clear_ring_never(r) == r

\* a clear_ring that takes out the last boxer only
clear_ring_last_only(r) == IF r = <<>> THEN r ELSE SubSeq(r, 1, Len(r) - 1)

\* clear_ring: returns at once on an empty ring, else self.ring.clear()
clear_ring(r) == IF r = <<>> THEN r ELSE <<>>

\* an enter_ring whose capacity check is off by one
enter_ring_off_by_one(r, boxer) ==
    IF boxer.class # "Boxer"
    THEN [ring |-> r, err |-> ErrInvalidType]
    ELSE IF Len(r) > 2
    THEN [ring |-> r, err |-> ErrRingFull]
    ELSE [ring |-> Append(r, boxer), err |-> NoError]

\* an enter_ring that puts the boxer in front
enter_ring_in_front(r, boxer) ==
    IF boxer.class # "Boxer"
    THEN [ring |-> r, err |-> ErrInvalidType]
    ELSE IF Len(r) >= 2
    THEN [ring |-> r, err |-> ErrRingFull]
    ELSE [ring |-> <<boxer>> \o r, err |-> NoError]

\* an enter_ring that checks the capacity before the type
enter_ring_capacity_first(r, boxer) ==
    IF Len(r) >= 2
    THEN [ring |-> r, err |-> ErrRingFull]
    ELSE IF boxer.class # "Boxer"
    THEN [ring |-> r, err |-> ErrInvalidType]
    ELSE [ring |-> Append(r, boxer), err |-> NoError]

\* enter_ring: [ring, err]
enter_ring(r, boxer) ==
    IF boxer.class # "Boxer"
    THEN [ring |-> r, err |-> ErrInvalidType]
    ELSE IF Len(r) >= 2
    THEN [ring |-> r, err |-> ErrRingFull]
    ELSE [ring |-> Append(r, boxer), err |-> NoError]

\* an age modifier whose bands take in their boundaries
age_modifier_inclusive(age) ==
    IF age <= 25 THEN 0 - 1 ELSE IF age >= 35 THEN 0 - 2 ELSE 0

age_modifier(age) == IF age < 25 THEN 0 - 1 ELSE IF age > 35 THEN 0 - 2 ELSE 0

\* a get_fighting_skill that adds the reach undivided
get_fighting_skill_reach_undivided(boxer) ==
    100 * (boxer.weight * Len(boxer.name)) + 10 * boxer.reach
        + 100 * age_modifier(boxer.age)

\* get_fighting_skill, in hundredths
get_fighting_skill(boxer) ==
    100 * (boxer.weight * Len(boxer.name)) + boxer.reach
        + 100 * age_modifier(boxer.age)

Abs(x) == IF x < 0 THEN 0 - x ELSE x

\* a delta that keeps its sign
SkillDelta_signed(boxer_1, boxer_2) ==
    get_fighting_skill(boxer_1) - get_fighting_skill(boxer_2)

\* delta = abs(skill_1 - skill_2), in hundredths
SkillDelta(boxer_1, boxer_2) ==
    Abs(get_fighting_skill(boxer_1) - get_fighting_skill(boxer_2))

\* LogisticBreaks[j] is floor(100 * ln(k / (100 - k))) for k = 49 + j:
\* 1 / (1 + e ** (-delta)) exceeds k / 100 exactly when delta, in
\* hundredths, exceeds LogisticBreaks[j].
LogisticBreaks ==
    <<0, 4, 8, 12, 16, 20, 24, 28, 32, 36, 40, 44, 48, 53, 57, 61, 66, 70,
      75, 80, 84, 89, 94, 99, 104, 109, 115, 120, 126, 132, 138, 145, 151,
      158, 165, 173, 181, 190, 199, 209, 219, 231, 244, 258, 275, 294, 317,
      347, 389, 459>>

\* a probability kept below 1
normalized_delta_below_one(delta) ==
    LET p == IF delta >= 0
             THEN 50 + Cardinality({j \in 1..Len(LogisticBreaks) :
                                       delta > LogisticBreaks[j]})
             ELSE 51 - Cardinality({j \in 1..Len(LogisticBreaks) :
                                       0 - delta > LogisticBreaks[j]})
    IN  IF p > 99 THEN 99 ELSE p

\* normalized_delta = 1 / (1 + math.e ** (-delta)), as the number of
\* hundredths strictly below it: 50 for delta = 0, 100 from delta = 4.60.
\* For a negative delta the logistic function is 1 minus its value at
\* -delta: 50 for delta = -0.01, 1 from delta = -4.60.
normalized_delta(delta) ==
    IF delta >= 0
    THEN 50 + Cardinality({j \in 1..Len(LogisticBreaks) :
                              delta > LogisticBreaks[j]})
    ELSE 51 - Cardinality({j \in 1..Len(LogisticBreaks) :
                              0 - delta > LogisticBreaks[j]})

\* a comparison that also gives the first boxer the sample equal to the
\* probability
WinnerPosition_or_equal(random_number, probability) ==
    IF random_number <= probability THEN 1 ELSE 2

\* the position in the ring of the winner: random_number < normalized_delta
WinnerPosition(random_number, probability) ==
    IF random_number < probability THEN 1 ELSE 2

\* What a call of fight leaves behind: [ring, store, err, ret, calls,
\* winner, probability].  calls are the calls fight made, in order; winner
\* is the position in the ring of the boxer the sample chose, 0 when none
\* was chosen; probability is normalized_delta, 0 when it was not computed.

\* a fight that clears the ring on its way out, as a finally clause would
Raised_clearing(r, store, err, calls, position, probability) ==
    [ring |-> <<>>, store |-> store, err |-> err, ret |-> None,
     calls |-> calls, winner |-> position, probability |-> probability]

\* a fight that takes back the winner's update when the loser's fails
Raised_rolled_back(r, store, err, calls, position, probability) ==
    [ring |-> r,
     store |-> IF Len(calls) = 3 /\ calls[2].err = NoError
               THEN [store EXCEPT ![calls[2].id].fights = @ - 1,
                                  ![calls[2].id].wins = @ - 1]
               ELSE store,
     err |-> err, ret |-> None, calls |-> calls, winner |-> position,
     probability |-> probability]

\* An exception leaves fight: nothing after the raising statement runs, so
\* the ring is as it was and the store is as the calls made so far left it.
Raised(r, store, err, calls, position, probability) ==
    [ring |-> r, store |-> store, err |-> err, ret |-> None, calls |-> calls,
     winner |-> position, probability |-> probability]

\* a fight that clears the ring before it lets the loser's failure out
RecordLoss_clearing(r, store, calls, position, probability) ==
    LET winner == r[position]
        loser == r[3 - position]
        lost == update_boxer_stats(store, loser.id, "loss")
        call_3 == Event("update_boxer_stats", loser.id, "loss", lost.err, 0)
    IN  [ring |-> clear_ring(r), store |-> lost.store, err |-> lost.err,
         ret |-> IF lost.err = NoError THEN winner.name ELSE None,
         calls |-> calls \o <<call_3, Event("clear_ring", 0, None, NoError, 0)>>,
         winner |-> position, probability |-> probability]

\* update_boxer_stats(loser.id, 'loss'); self.clear_ring(); return winner.name
RecordLoss(r, store, calls, position, probability) ==
    LET winner == r[position]
        loser == r[3 - position]
        lost == update_boxer_stats(store, loser.id, "loss")
        call_3 == Event("update_boxer_stats", loser.id, "loss", lost.err, 0)
    IN  IF lost.err # NoError
        THEN Raised(r, lost.store, lost.err, Append(calls, call_3), position,
                    probability)
        ELSE [ring |-> clear_ring(r), store |-> lost.store, err |-> NoError,
              ret |-> winner.name,
              calls |-> calls \o <<call_3, Event("clear_ring", 0, None, NoError, 0)>>,
              winner |-> position, probability |-> probability]

\* a fight that goes on to the loser's update when the winner's failed
RecordWin_both_attempted(r, store, calls, position, probability) ==
    LET winner == r[position]
        won == update_boxer_stats(store, winner.id, "win")
        call_2 == Event("update_boxer_stats", winner.id, "win", won.err, 0)
        after == RecordLoss(r, won.store, Append(calls, call_2), position,
                            probability)
    IN  IF won.err # NoError
        THEN Raised(r, after.store, won.err,
                    SubSeq(after.calls, 1, 3), position, probability)
        ELSE after

\* a fight that records the loser's loss before the winner's win
RecordWin_loss_first(r, store, calls, position, probability) ==
    LET winner == r[position]
        loser == r[3 - position]
        lost == update_boxer_stats(store, loser.id, "loss")
        call_2 == Event("update_boxer_stats", loser.id, "loss", lost.err, 0)
        won == update_boxer_stats(lost.store, winner.id, "win")
        call_3 == Event("update_boxer_stats", winner.id, "win", won.err, 0)
    IN  IF lost.err # NoError
        THEN Raised(r, lost.store, lost.err, Append(calls, call_2), position,
                    probability)
        ELSE IF won.err # NoError
        THEN Raised(r, won.store, won.err, calls \o <<call_2, call_3>>,
                    position, probability)
        ELSE [ring |-> clear_ring(r), store |-> won.store, err |-> NoError,
              ret |-> winner.name,
              calls |-> calls \o <<call_2, call_3,
                                   Event("clear_ring", 0, None, NoError, 0)>>,
              winner |-> position, probability |-> probability]

\* update_boxer_stats(winner.id, 'win') and what follows it
RecordWin(r, store, calls, position, probability) ==
    LET winner == r[position]
        won == update_boxer_stats(store, winner.id, "win")
        call_2 == Event("update_boxer_stats", winner.id, "win", won.err, 0)
    IN  IF won.err # NoError
        THEN Raised(r, won.store, won.err, Append(calls, call_2), position,
                    probability)
        ELSE RecordLoss(r, won.store, Append(calls, call_2), position,
                        probability)

\* random_number = get_random() and what follows it
Sampled(r, store, random_number, probability) ==
    LET call_1 == Event("get_random", 0, None, random_number.err,
                        random_number.val)
    IN  IF random_number.err # NoError
        THEN Raised(r, store, random_number.err, <<call_1>>, 0, probability)
        ELSE RecordWin(r, store, <<call_1>>,
                       WinnerPosition(random_number.val, probability),
                       probability)

fight(r, store, resp) ==
    IF Len(r) < 2
    THEN Raised(r, store, ErrTwoBoxers, <<>>, 0, 0)
    ELSE LET boxer_1 == get_boxers(r)[1]
             boxer_2 == get_boxers(r)[2]
         IN  Sampled(r, store, get_random(resp),
                     normalized_delta(SkillDelta(boxer_1, boxer_2)))

(***************************************************************************)
(* The state machine.  boxers is the store, ring the one RingModel, last   *)
(* the record of the most recent call: its name, its arguments (the Boxer  *)
(* of enter_ring and get_fighting_skill, a record of the named arguments   *)
(* of a store function), the error it raised, the value it returned (ret   *)
(* a string, ret_number a number, ret_boxer a Boxer, ret_list a list) and   *)
(* the calls it made.                                                      *)
(***************************************************************************)
Called(op, arg, err) ==
    [op |-> op, arg |-> arg, err |-> err, ret |-> None, ret_number |-> 0,
     ret_boxer |-> NoValue, ret_list |-> <<>>, calls |-> <<>>, winner |-> 0,
     probability |-> 0, response |-> NoResponse]

\* how often the boxer id stands in the ring r
Entries(r, id) == Cardinality({k \in 1..Len(r) : r[k].id = id})

\* the bound on the counters: no fight takes a row beyond MaxFights
FightWithinBound ==
    \A i \in DOMAIN boxers : boxers[i].fights + Entries(ring, i) <= MaxFights

\* the Boxer values a caller holds: those get_boxer_by_id returns
BoxersOfStore ==
    {get_boxer_by_id(boxers, i).ret : i \in DOMAIN boxers}

\* RingModel(): an empty ring; the table holds no row
Init ==
    /\ boxers = <<>>
    /\ ring = <<>>
    /\ last = Called("__init__", NoValue, NoError)
    /\ threads = <<>>

\* create_boxer called with arguments from the given sets; a call that
\* would insert into a table with no id left to give is left out
CreateBoxerFrom(weights, heights, reaches, ages) ==
    \E name \in Names, weight \in weights, height \in heights,
       reach \in reaches, age \in ages,
       new_id \in (IF FreshIds(boxers) = {} THEN {0} ELSE FreshIds(boxers)) :
        \E done \in {create_boxer(boxers, new_id, name, weight, height,
                                   reach, age)} :
            /\ done.err = NoError => new_id # 0
            /\ boxers' = done.store
            /\ last' = [Called("create_boxer",
                               [name |-> name, weight |-> weight,
                                height |-> height, reach |-> reach,
                                age |-> age],
                               done.err) EXCEPT !.calls = done.executed]
            /\ UNCHANGED <<ring, threads>>

CreateBoxer ==
    CreateBoxerFrom(WeightInputs, HeightInputs, ReachInputs, AgeInputs)

DeleteBoxer ==
    \E boxer_id \in Ids :
        \E done \in {delete_boxer(boxers, boxer_id)} :
            /\ boxers' = done.store
            /\ last' = Called("delete_boxer", [boxer_id |-> boxer_id], done.err)
            /\ UNCHANGED <<ring, threads>>

UpdateBoxerStats ==
    \E boxer_id \in Ids, result \in ResultInputs :
        \E done \in {update_boxer_stats(boxers, boxer_id, result)} :
            /\ boxer_id \in DOMAIN boxers => boxers[boxer_id].fights < MaxFights
            /\ boxers' = done.store
            /\ last' = Called("update_boxer_stats",
                               [boxer_id |-> boxer_id, result |-> result],
                               done.err)
            /\ UNCHANGED <<ring, threads>>

GetBoxerById ==
    \E boxer_id \in Ids :
        \E done \in {get_boxer_by_id(boxers, boxer_id)} :
            /\ last' = [Called("get_boxer_by_id", [boxer_id |-> boxer_id],
                               done.err) EXCEPT !.ret_boxer = done.ret]
            /\ UNCHANGED <<boxers, ring, threads>>

GetBoxerByName ==
    \E boxer_name \in Names :
        \E done \in {get_boxer_by_name(boxers, boxer_name)} :
            /\ last' = [Called("get_boxer_by_name",
                               [boxer_name |-> boxer_name], done.err)
                            EXCEPT !.ret_boxer = done.ret]
            /\ UNCHANGED <<boxers, ring, threads>>

GetLeaderboard ==
    \E sort_by \in SortByInputs :
        \E order \in (IF sort_by \in {"win_pct", "wins"}
                      THEN SelectedOrders(boxers, sort_by) ELSE {<<>>}) :
            \E done \in {get_leaderboard(boxers, sort_by, order)} :
                /\ last' = [Called("get_leaderboard", [sort_by |-> sort_by],
                                   done.err)
                                EXCEPT !.ret_list = done.ret,
                                       !.calls = done.executed]
                /\ UNCHANGED <<boxers, ring, threads>>

EnterRing ==
    \E boxer \in BoxersOfStore \cup {NotABoxer} :
        \E done \in {enter_ring(ring, boxer)} :
            /\ ring' = done.ring
            /\ last' = Called("enter_ring", boxer, done.err)
            /\ UNCHANGED <<boxers, threads>>

ClearRing ==
    /\ ring' = clear_ring(ring)
    /\ last' = Called("clear_ring", NoValue, NoError)
    /\ UNCHANGED <<boxers, threads>>

Fight ==
    /\ FightWithinBound
    /\ \E resp \in Responses :
        \E done \in {fight(ring, boxers, resp)} :
            /\ ring' = done.ring
            /\ boxers' = done.store
            /\ last' = [op |-> "fight", arg |-> NoValue, err |-> done.err,
                        ret |-> done.ret, ret_number |-> 0,
                        ret_boxer |-> NoValue, ret_list |-> <<>>,
                        calls |-> done.calls,
                        winner |-> done.winner,
                        probability |-> done.probability,
                        response |-> IF done.calls = <<>> THEN NoResponse
                                     ELSE resp]
            /\ UNCHANGED threads

Next ==
    \/ CreateBoxer
    \/ DeleteBoxer
    \/ UpdateBoxerStats
    \/ EnterRing
    \/ ClearRing
    \/ Fight

Spec == Init /\ [][Next]_vars

(***************************************************************************)
(* The fights of two stored boxers whose skills differ: the table holds    *)
(* two boxers, of any of the weights and ages below, and the calls are     *)
(* those of the ring and delete_boxer.                                     *)
(***************************************************************************)
FightWeights == {150, 152}

FightAges == {24, 30}

FightRows ==
    [name : Names, weight : FightWeights, height : HeightInputs,
     reach : ReachInputs, age : FightAges, fights : {0}, wins : {0}]

InitFight ==
    /\ boxers \in {store \in [Ids -> FightRows] :
                      \A i, j \in Ids : i # j => store[i].name # store[j].name}
    /\ ring = <<>>
    /\ last = Called("__init__", NoValue, NoError)
    /\ threads = <<>>

NextFight ==
    \/ EnterRing
    \/ ClearRing
    \/ Fight
    \/ DeleteBoxer

SpecFight == InitFight /\ [][NextFight]_vars

(***************************************************************************)
(* The store alone: create_boxer with arguments on both sides of each of   *)
(* its checks, delete_boxer and get_boxer_by_id.                           *)
(***************************************************************************)
WideWeights == {124, 125}

WideHeights == {0 - 1, 0, 70}

WideReaches == {0, 700}

WideAges == {17, 18, 40, 41}

CreateBoxerWide ==
    CreateBoxerFrom(WideWeights, WideHeights, WideReaches, WideAges)

NextStore ==
    \/ CreateBoxerWide
    \/ DeleteBoxer
    \/ GetBoxerById

SpecStore == Init /\ [][NextStore]_vars

(***************************************************************************)
(* One bout: two stored boxers of any of the names, weights, reaches and   *)
(* ages below have entered the ring, the boxer of id 1 first, and fight    *)
(* is called.  The rows take in the two competitors of the worked example  *)
(* (150 lb, reach 72.2, age 21 and 180 lb, reach 77.5, age 24, names of    *)
(* nine characters) and rows of equal skill that differ in reach and age.  *)
(***************************************************************************)
BoutNames == {"Fighter A", "Fighter B"}

BoutWeights == {150, 180}

BoutReaches == {700, 722, 775, 800}

BoutAges == {21, 24, 30}

BoutRows ==
    [name : BoutNames, weight : BoutWeights, height : HeightInputs,
     reach : BoutReaches, age : BoutAges, fights : {0}, wins : {0}]

InitBout ==
    /\ boxers \in {store \in [Ids -> BoutRows] :
                      \A i, j \in Ids : i # j => store[i].name # store[j].name}
    /\ ring = <<Boxer(1, boxers[1]), Boxer(2, boxers[2])>>
    /\ last = Called("enter_ring", Boxer(2, boxers[2]), NoError)
    /\ threads = <<>>

NextBout == Fight

SpecBout == InitBout /\ [][NextBout]_vars

(***************************************************************************)
(* The functions that only read: get_fighting_skill on a Boxer of any of   *)
(* the names, weights, reaches and ages below, get_weight_class on any     *)
(* weight from 120 to 210, get_boxer_by_id on a table of one boxer who has *)
(* entered the ring.                                                       *)
(***************************************************************************)
SkillNames == {"Ali", "Bob", "Fighter A"}

SkillWeights == {125, 150, 180}

SkillReaches == {700, 722, 775}

SkillAges == {18, 21, 24, 25, 30, 35, 36, 40}

SkillBoxers ==
    {Boxer(1, row) :
        row \in [name : SkillNames, weight : SkillWeights,
                 height : HeightInputs, reach : SkillReaches,
                 age : SkillAges]}

WeightClassInputs == 120..210

QueryWeights == {125, 150, 203}

QueryRows ==
    [name : Names, weight : QueryWeights, height : HeightInputs,
     reach : ReachInputs, age : AgeInputs, fights : {0}, wins : {0}]

InitQueries ==
    /\ boxers \in {[i \in {1} |-> row] : row \in QueryRows}
    /\ ring = <<Boxer(1, boxers[1])>>
    /\ last = Called("enter_ring", Boxer(1, boxers[1]), NoError)
    /\ threads = <<>>

GetFightingSkill ==
    \E boxer \in SkillBoxers :
        /\ last' = [Called("get_fighting_skill", boxer, NoError)
                        EXCEPT !.ret_number = get_fighting_skill(boxer)]
        /\ UNCHANGED <<boxers, ring, threads>>

GetWeightClass ==
    \E weight \in WeightClassInputs :
        \E done \in {get_weight_class(weight)} :
            /\ last' = [Called("get_weight_class", [weight |-> weight],
                               done.err) EXCEPT !.ret = done.ret]
            /\ UNCHANGED <<boxers, ring, threads>>

GetRandom ==
    \E resp \in Responses :
        \E done \in {get_random(resp)} :
            /\ last' = [Called("get_random", NoValue, done.err)
                            EXCEPT !.ret_number = done.val,
                                   !.response = resp,
                                   !.calls = [k \in 1..done.requests |->
                                                Event("requests.get", 0, None,
                                                      NoError, 0)]]
            /\ UNCHANGED <<boxers, ring, threads>>

NextQueries ==
    \/ GetFightingSkill
    \/ GetWeightClass
    \/ GetBoxerById
    \/ GetRandom

SpecQueries == InitQueries /\ [][NextQueries]_vars

(***************************************************************************)
(* Every call of the program on one store and one ring: the calls of Spec  *)
(* and the calls that only read.                                           *)
(***************************************************************************)
GetBoxers ==
    /\ last' = [Called("get_boxers", NoValue, NoError)
                    EXCEPT !.ret_list = get_boxers(ring)]
    /\ UNCHANGED <<boxers, ring, threads>>

GetFightingSkillOfMember ==
    \E boxer \in BoxersOfStore :
        /\ last' = [Called("get_fighting_skill", boxer, NoError)
                        EXCEPT !.ret_number = get_fighting_skill(boxer)]
        /\ UNCHANGED <<boxers, ring, threads>>

NextLife ==
    \/ CreateBoxer
    \/ DeleteBoxer
    \/ UpdateBoxerStats
    \/ GetBoxerById
    \/ GetBoxerByName
    \/ GetLeaderboard
    \/ EnterRing
    \/ ClearRing
    \/ GetBoxers
    \/ GetFightingSkillOfMember
    \/ Fight

SpecLife == Init /\ [][NextLife]_vars

(***************************************************************************)
(* The leaderboard: the table holds two boxers whose counters are any of   *)
(* those below, among them the 9 wins in 12 fights and 10 wins in 25       *)
(* fights of test_get_leaderboard, boxers who never fought, boxers equal   *)
(* in wins or in ratio, and ratios that round down, round up and lie       *)
(* halfway between two tenths.                                             *)
(***************************************************************************)
BoardCounters ==
    {[fights |-> 0, wins |-> 0], [fights |-> 12, wins |-> 9],
     [fights |-> 25, wins |-> 10], [fights |-> 20, wins |-> 10],
     [fights |-> 4, wins |-> 3], [fights |-> 3, wins |-> 1],
     [fights |-> 3, wins |-> 2], [fights |-> 16, wins |-> 1]}

BoardWeights == {125, 203}

BoardRows ==
    {[name |-> name, weight |-> weight, height |-> height, reach |-> reach,
      age |-> age, fights |-> c.fights, wins |-> c.wins] :
        name \in Names, weight \in BoardWeights, height \in HeightInputs,
        reach \in ReachInputs, age \in AgeInputs, c \in BoardCounters}

InitBoard ==
    /\ boxers \in {store \in [Ids -> BoardRows] :
                      \A i, j \in Ids : i # j => store[i].name # store[j].name}
    /\ ring = <<>>
    /\ last = Called("__init__", NoValue, NoError)
    /\ threads = <<>>

NextBoard ==
    \/ GetLeaderboard
    \/ DeleteBoxer

SpecBoard == InitBoard /\ [][NextBoard]_vars

(***************************************************************************)
(* The list get_boxers returns.  get_boxers returns self.ring, the list    *)
(* the ring keeps its members in, so what a caller does to the list it was *)
(* handed is done to self.ring.  The caller appends to that list while it  *)
(* holds at most two values, or clears it.                                 *)
(***************************************************************************)
CallerAppends ==
    /\ last.op \in {"get_boxers", "returned.append", "returned.clear"}
    /\ Len(get_boxers(ring)) <= 2
    /\ \E boxer \in BoxersOfStore \cup {NotABoxer} :
          /\ ring' = Append(get_boxers(ring), boxer)
          /\ last' = Called("returned.append", boxer, NoError)
          /\ UNCHANGED <<boxers, threads>>

CallerClears ==
    /\ last.op \in {"get_boxers", "returned.append", "returned.clear"}
    /\ ring' = SubSeq(get_boxers(ring), 1, 0)
    /\ last' = Called("returned.clear", NoValue, NoError)
    /\ UNCHANGED <<boxers, threads>>

NextAlias ==
    \/ CreateBoxer
    \/ EnterRing
    \/ ClearRing
    \/ GetBoxers
    \/ CallerAppends
    \/ CallerClears

SpecAlias == Init /\ [][NextAlias]_vars

(***************************************************************************)
(* Calls that run at the same time.  The package takes no lock: a call     *)
(* running in a thread is a sequence of steps, each step one statement on  *)
(* the shared ring or one SQL statement on the table, and the steps of     *)
(* different threads interleave in any order.  threads gives each thread   *)
(* its call and how far the call has come:                                 *)
(*   op, arg   the function called and its arguments                       *)
(*   pc        the step the call takes next; "done" when it is over        *)
(*   seen      what its check read: the length of the ring, or the number  *)
(*             of rows its SELECT fetched                                  *)
(*   met       what its write met: the length of the ring it appended to,  *)
(*             or the number of rows its statement changed                 *)
(*   err, ret  the error it raised, the value it returned                  *)
(*   ring      the list of the RingModel the call is made on, when that    *)
(*             is an instance of the thread's own                          *)
(*   position, probability   the winner a fight chose                      *)
(*   before    the table and the thread's own ring when the calls began    *)
(*             (kept for the claims)                                       *)
(*   crossed   the writes other calls made between its check and its own   *)
(*             write (kept for the claims)                                 *)
(* In the specifications of calls made one at a time threads is empty.     *)
(***************************************************************************)
Threads == {1, 2}

Thread(op, arg, r, store) ==
    [op |-> op, arg |-> arg, pc |-> "start", seen |-> 0, met |-> 0,
     err |-> NoError, ret |-> None, ring |-> r, position |-> 0,
     probability |-> 0, before |-> [boxers |-> store, ring |-> r],
     crossed |-> 0]

\* the call of thread t ends: it raises err, or returns when err is NoError
Ended(t, err) == [threads EXCEPT ![t].pc = "done", ![t].err = err]

\* the threads after thread t wrote to the ring or the table, ths being
\* the threads with t's own step taken: the write fell between the check
\* and the write of every other call that stands before its write
Crossing(t, ths) ==
    [u \in DOMAIN ths |->
        IF u # t /\ ths[u].pc \in {"append", "update", "delete", "insert",
                                   "win_update", "loss_update"}
        THEN [ths[u] EXCEPT !.crossed = @ + 1]
        ELSE ths[u]]

\* enter_ring up to its append: the type check and the length check
EnterRingChecks(t) ==
    /\ threads[t].op = "enter_ring"
    /\ threads[t].pc = "start"
    /\ \E checked \in {enter_ring(ring, threads[t].arg)} :
          threads' = IF checked.err # NoError
                     THEN Ended(t, checked.err)
                     ELSE [threads EXCEPT ![t].pc = "append",
                                          ![t].seen = Len(ring)]
    /\ UNCHANGED <<boxers, ring, last>>

\* self.ring.append(boxer)
EnterRingAppends(t) ==
    /\ threads[t].op = "enter_ring"
    /\ threads[t].pc = "append"
    /\ ring' = Append(ring, threads[t].arg)
    /\ threads' = Crossing(t, [Ended(t, NoError) EXCEPT ![t].met = Len(ring)])
    /\ UNCHANGED <<boxers, last>>

\* two enter_ring calls on the one ring; the ring holds 0, 1 or 2 of the
\* stored boxers when they begin
RaceRows ==
    [name : Names, weight : {150}, height : HeightInputs,
     reach : ReachInputs, age : AgeInputs, fights : {0}, wins : {0}]

InitRing ==
    /\ boxers \in {store \in [Ids -> RaceRows] :
                      \A i, j \in Ids : i # j => store[i].name # store[j].name}
    /\ ring \in UNION {[1..n -> BoxersOfStore] : n \in 0..2}
    /\ last = Called("__init__", NoValue, NoError)
    /\ threads \in [Threads -> {Thread("enter_ring", boxer, <<>>, boxers) :
                                  boxer \in BoxersOfStore \cup {NotABoxer}}]

NextRing ==
    \E t \in Threads : EnterRingChecks(t) \/ EnterRingAppends(t)

SpecRing == InitRing /\ [][NextRing]_vars

\* SELECT id FROM boxers WHERE id = ?: the number of rows fetched
SelectId(store, boxer_id) == IF boxer_id \in DOMAIN store THEN 1 ELSE 0

\* an UPDATE that writes the counters the call found when it began, plus
\* one, in place of the counters of the row as it is
UpdateStatement_from_before(store, call) ==
    LET id == call.arg.boxer_id IN
    IF id \in DOMAIN store /\ id \in DOMAIN call.before.boxers
    THEN [store |-> With(store, id,
                         UpdatedRow(call.before.boxers[id], call.arg.result)),
          rowcount |-> 1, err |-> NoError]
    ELSE [store |-> store, rowcount |-> 0, err |-> NoError]

\* an UPDATE with no WHERE clause: every row is counted up
UpdateStatement_every_row(store, call) ==
    [store |-> [i \in DOMAIN store |-> UpdatedRow(store[i], call.arg.result)],
     rowcount |-> Cardinality(DOMAIN store), err |-> NoError]

\* UPDATE boxers SET fights = fights + 1 [, wins = wins + 1] WHERE id = ?
\* and commit: [store, rowcount, err].  The statement changes the row of
\* that id as it is in the table, or no row when there is none, which is
\* no error.
UpdateStatement(store, call) ==
    LET id == call.arg.boxer_id IN
    IF id \in DOMAIN store
    THEN [store |-> With(store, id, UpdatedRow(store[id], call.arg.result)),
          rowcount |-> 1, err |-> NoError]
    ELSE [store |-> store, rowcount |-> 0, err |-> NoError]

\* DELETE FROM boxers WHERE id = ? and commit: [store, rowcount]
DeleteStatement(store, call) ==
    LET id == call.arg.boxer_id IN
    IF id \in DOMAIN store
    THEN [store |-> Without(store, id), rowcount |-> 1]
    ELSE [store |-> store, rowcount |-> 0]

\* update_boxer_stats up to its UPDATE: the check of the result and the
\* SELECT
UpdateSelects(t) ==
    /\ threads[t].op = "update_boxer_stats"
    /\ threads[t].pc = "start"
    /\ \E fetched \in {SelectId(boxers, threads[t].arg.boxer_id)} :
          threads' =
              IF threads[t].arg.result \notin {"win", "loss"}
              THEN Ended(t, ErrInvalidResult)
              ELSE IF fetched = 0
              THEN Ended(t, ErrNotFound)
              ELSE [threads EXCEPT ![t].pc = "update", ![t].seen = fetched]
    /\ UNCHANGED <<boxers, ring, last>>

\* the UPDATE and the commit of update_boxer_stats
UpdateWrites(t) ==
    /\ threads[t].op = "update_boxer_stats"
    /\ threads[t].pc = "update"
    /\ \E done \in {UpdateStatement(boxers, threads[t])} :
          /\ boxers' = done.store
          /\ threads' = Crossing(t, [Ended(t, done.err)
                                        EXCEPT ![t].met = done.rowcount])
    /\ UNCHANGED <<ring, last>>

\* delete_boxer up to its DELETE: the SELECT
DeleteSelects(t) ==
    /\ threads[t].op = "delete_boxer"
    /\ threads[t].pc = "start"
    /\ \E fetched \in {SelectId(boxers, threads[t].arg.boxer_id)} :
          threads' = IF fetched = 0
                     THEN Ended(t, ErrNotFound)
                     ELSE [threads EXCEPT ![t].pc = "delete",
                                          ![t].seen = fetched]
    /\ UNCHANGED <<boxers, ring, last>>

\* the DELETE and the commit of delete_boxer
DeleteWrites(t) ==
    /\ threads[t].op = "delete_boxer"
    /\ threads[t].pc = "delete"
    /\ \E done \in {DeleteStatement(boxers, threads[t])} :
          /\ boxers' = done.store
          /\ threads' = Crossing(t, [Ended(t, NoError)
                                        EXCEPT ![t].met = done.rowcount])
    /\ UNCHANGED <<ring, last>>

\* two calls on the table at the same time, each an update_boxer_stats or
\* a delete_boxer
StatsCalls ==
    {Thread("update_boxer_stats", [boxer_id |-> id, result |-> result],
            <<>>, boxers) : id \in Ids, result \in ResultInputs}
    \cup {Thread("delete_boxer", [boxer_id |-> id], <<>>, boxers) :
              id \in Ids}

InitStats ==
    /\ boxers \in {store \in UNION {[S -> RaceRows] : S \in SUBSET Ids} :
                      \A i, j \in DOMAIN store :
                          i # j => store[i].name # store[j].name}
    /\ ring = <<>>
    /\ last = Called("__init__", NoValue, NoError)
    /\ threads \in [Threads -> StatsCalls]

NextStats ==
    \E t \in Threads :
        \/ UpdateSelects(t)
        \/ UpdateWrites(t)
        \/ DeleteSelects(t)
        \/ DeleteWrites(t)

SpecStats == InitStats /\ [][NextStats]_vars

\* the table's UNIQUE constraint on name: what an INSERT of that name runs
\* into
UniqueNameTaken(store, name) == NameExists(store, name)

\* an INSERT into a table that has no constraint on the name
InsertStatement_unconstrained(store, new_id, call) ==
    [store |-> With(store, new_id,
                    [name |-> call.arg.name, weight |-> call.arg.weight,
                     height |-> call.arg.height, reach |-> call.arg.reach,
                     age |-> call.arg.age,
                     fights |-> NewRowCounters.fights,
                     wins |-> NewRowCounters.wins]),
     rowcount |-> 1, err |-> NoError]

\* INSERT INTO boxers (name, weight, height, reach, age) and commit, the
\* table giving the row the id new_id: [store, rowcount, err].  An INSERT
\* the table refuses raises sqlite3.IntegrityError, which create_boxer
\* turns into the already-exists error.
InsertStatement(store, new_id, call) ==
    IF UniqueNameTaken(store, call.arg.name)
    THEN [store |-> store, rowcount |-> 0, err |-> ErrAlreadyExists]
    ELSE [store |-> With(store, new_id,
                         [name |-> call.arg.name, weight |-> call.arg.weight,
                          height |-> call.arg.height, reach |-> call.arg.reach,
                          age |-> call.arg.age,
                          fights |-> NewRowCounters.fights,
                          wins |-> NewRowCounters.wins]),
          rowcount |-> 1, err |-> NoError]

\* create_boxer up to its INSERT: the checks of the fields and the SELECT
CreateSelects(t) ==
    /\ threads[t].op = "create_boxer"
    /\ threads[t].pc = "start"
    /\ \E invalid \in {ValidationError(threads[t].arg.weight,
                                        threads[t].arg.height,
                                        threads[t].arg.reach,
                                        threads[t].arg.age)} :
          threads' =
              IF invalid # NoError
              THEN Ended(t, invalid)
              ELSE IF NameExists(boxers, threads[t].arg.name)
              THEN [Ended(t, ErrAlreadyExists) EXCEPT ![t].seen = 1]
              ELSE [threads EXCEPT ![t].pc = "insert"]
    /\ UNCHANGED <<boxers, ring, last>>

\* the INSERT and the commit of create_boxer
CreateInserts(t) ==
    /\ threads[t].op = "create_boxer"
    /\ threads[t].pc = "insert"
    /\ \E new_id \in (IF FreshIds(boxers) = {} THEN {0}
                       ELSE FreshIds(boxers)) :
          \E done \in {InsertStatement(boxers, new_id, threads[t])} :
              /\ done.err = NoError => new_id # 0
              /\ boxers' = done.store
              /\ threads' =
                    IF done.err # NoError
                    THEN Ended(t, done.err)
                    ELSE Crossing(t, [Ended(t, NoError)
                                        EXCEPT ![t].met = done.rowcount])
    /\ UNCHANGED <<ring, last>>

\* two create_boxer calls at the same time, on an empty table or a table of
\* one boxer
RaceWeights == {124, 150, 180}

CreateCalls ==
    {Thread("create_boxer",
            [name |-> name, weight |-> weight, height |-> height,
             reach |-> reach, age |-> age], <<>>, boxers) :
        name \in Names, weight \in RaceWeights, height \in HeightInputs,
        reach \in ReachInputs, age \in AgeInputs}

InitCreate ==
    /\ boxers \in {<<>>} \cup [{1} -> {row \in RaceRows : row.name = "Ali"}]
    /\ ring = <<>>
    /\ last = Called("__init__", NoValue, NoError)
    /\ threads \in [Threads -> CreateCalls]

NextCreate ==
    \E t \in Threads : CreateSelects(t) \/ CreateInserts(t)

SpecCreate == InitCreate /\ [][NextCreate]_vars

\* fight up to its first stat update: the length check, the two skills,
\* the probability, the sample and the choice of the winner
FightSamples(t) ==
    /\ threads[t].op = "fight"
    /\ threads[t].pc = "start"
    /\ \E resp \in Responses :
          LET r == threads[t].ring
              random_number == get_random(resp)
              probability == normalized_delta(SkillDelta(get_boxers(r)[1],
                                                         get_boxers(r)[2]))
          IN  threads' =
                  IF Len(r) < 2
                  THEN Ended(t, ErrTwoBoxers)
                  ELSE IF random_number.err # NoError
                  THEN [Ended(t, random_number.err)
                           EXCEPT ![t].probability = probability]
                  ELSE [threads EXCEPT
                           ![t].pc = "win_select",
                           ![t].probability = probability,
                           ![t].position =
                               WinnerPosition(random_number.val, probability)]
    /\ UNCHANGED <<boxers, ring, last>>

\* the stat update a fight is making: update_boxer_stats(winner.id, 'win')
\* or update_boxer_stats(loser.id, 'loss')
FightUpdateCall(call) ==
    [call EXCEPT !.arg =
        IF call.pc \in {"win_select", "win_update"}
        THEN [boxer_id |-> call.ring[call.position].id, result |-> "win"]
        ELSE [boxer_id |-> call.ring[3 - call.position].id,
              result |-> "loss"]]

\* the SELECT of a fight's stat update
FightUpdateSelects(t) ==
    /\ threads[t].op = "fight"
    /\ threads[t].pc \in {"win_select", "loss_select"}
    /\ \E fetched \in {SelectId(boxers,
                                 FightUpdateCall(threads[t]).arg.boxer_id)} :
          threads' =
              IF fetched = 0
              THEN Ended(t, ErrNotFound)
              ELSE [threads EXCEPT
                       ![t].pc = IF @ = "win_select" THEN "win_update"
                                 ELSE "loss_update",
                       ![t].seen = fetched]
    /\ UNCHANGED <<boxers, ring, last>>

\* the UPDATE and commit of a fight's stat update
FightUpdateWrites(t) ==
    /\ threads[t].op = "fight"
    /\ threads[t].pc \in {"win_update", "loss_update"}
    /\ \E done \in {UpdateStatement(boxers, FightUpdateCall(threads[t]))} :
          /\ boxers' = done.store
          /\ threads' =
                Crossing(t, [threads EXCEPT
                                ![t].pc = IF @ = "win_update"
                                          THEN "loss_select" ELSE "clear",
                                ![t].met = done.rowcount])
    /\ UNCHANGED <<ring, last>>

\* self.clear_ring(); return winner.name
FightClears(t) ==
    /\ threads[t].op = "fight"
    /\ threads[t].pc = "clear"
    /\ threads' = [Ended(t, NoError) EXCEPT
                      ![t].ret = threads[t].ring[threads[t].position].name,
                      ![t].ring = clear_ring(@)]
    /\ UNCHANGED <<boxers, ring, last>>

\* two fights at the same time, each on a RingModel of its thread's own:
\* four stored boxers, the first ring holding boxers 1 and 2, the second
\* boxers 3 and 4 or, sharing a boxer with the first, boxers 1 and 3
RingIds == {1, 2, 3, 4}

RingNames == <<"Ali", "Bob", "Cy", "Dora">>

RingRows ==
    {store \in [RingIds -> [name : {RingNames[i] : i \in RingIds},
                            weight : FightWeights, height : HeightInputs,
                            reach : ReachInputs, age : AgeInputs,
                            fights : {0}, wins : {0}]] :
        \A i \in RingIds :
            /\ store[i].name = RingNames[i]
            /\ i \in {2, 4} => store[i].weight = 150}

InitRings ==
    /\ boxers \in RingRows
    /\ ring = <<>>
    /\ last = Called("__init__", NoValue, NoError)
    /\ \E pairs \in {<<1, 2>>, <<2, 1>>} \X {<<3, 4>>, <<4, 3>>, <<1, 3>>} :
          threads =
              [t \in Threads |->
                  Thread("fight", NoValue,
                         <<Boxer(pairs[t][1], boxers[pairs[t][1]]),
                           Boxer(pairs[t][2], boxers[pairs[t][2]])>>,
                         boxers)]

NextRings ==
    \E t \in Threads :
        \/ FightSamples(t)
        \/ FightUpdateSelects(t)
        \/ FightUpdateWrites(t)
        \/ FightClears(t)

SpecRings == InitRings /\ [][NextRings]_vars

(***************************************************************************)
(* The claims.                                                             *)
(***************************************************************************)
FightCalled == last.op = "fight"

FightReturned == last.op = "fight" /\ last.err = NoError

\* the stat updates among the calls a fight made
UpdateCalls(calls) == SelectSeq(calls, LAMBDA c : c.fn = "update_boxer_stats")

\* C1: a new ring is empty, and whatever calls were made, one at a time,
\* the ring holds 0, 1 or 2 boxers.
C1_RingHoldsAtMostTwo ==
    /\ last.op = "__init__" => ring = <<>>
    /\ Len(ring) \in {0, 1, 2}

\* a third boxer was offered to a ring of two
C1_Witness ==
    last.op = "enter_ring" /\ last.err = ErrRingFull /\ Len(ring) = 2

\* C2: a fight that returns a winner issued one 'win' and one 'loss'
\* update, to two distinct ids, the ids of the two ring members.
C2_UpdatesGoToTwoDistinctMembers ==
    [][(last'.op = "fight" /\ last'.err = NoError) =>
        LET u == UpdateCalls(last'.calls) IN
        /\ Len(u) = 2
        /\ Cardinality({k \in 1..Len(u) : u[k].tag = "win"}) = 1
        /\ Cardinality({k \in 1..Len(u) : u[k].tag = "loss"}) = 1
        /\ u[1].id # u[2].id
        /\ {u[1].id, u[2].id} = {ring[1].id, ring[2].id}]_vars

\* C3: the first-entered boxer wins exactly when the sample is strictly
\* below the probability, the second otherwise; the fight returns the
\* winner's name, the name of one of the two members.
C3_FirstWinsIffSampleBelowProbability ==
    [][(last'.op = "fight" /\ last'.winner # 0) =>
        LET sample == last'.calls[1].val
            p == normalized_delta(SkillDelta(ring[1], ring[2]))
        IN  /\ last'.probability = p
            /\ last'.winner = 1 <=> sample < p
            /\ last'.winner = 2 <=> sample >= p
            /\ last'.calls[2].id = ring[last'.winner].id
            /\ last'.err = NoError =>
                  /\ last'.ret = ring[last'.winner].name
                  /\ last'.ret \in {ring[1].name, ring[2].name}]_vars

\* the sample was equal to a probability above one half, and the second
\* boxer won
C3_Witness ==
    /\ FightReturned
    /\ last.probability = 74
    /\ last.calls[1].val = last.probability
    /\ last.winner = 2

\* C4: after a fight that returns a winner the ring is empty.
C4_RingEmptyAfterFight == FightReturned => ring = <<>>

\* the second-entered boxer won
C4_Witness == FightReturned /\ last.winner = 2 /\ ring = <<>>

\* C5: fight on a ring of 0 or 1 boxers raises the two-boxers error and
\* changes neither the ring nor the store; it asks for no sample and
\* issues no stat update.
C5_FightRefusedLeavesAllUnchanged ==
    [][(last'.op = "fight" /\ Len(ring) < 2) =>
        /\ last'.err = ErrTwoBoxers
        /\ ring' = ring
        /\ boxers' = boxers
        /\ last'.calls = <<>>
        /\ last'.response = NoResponse]_vars

\* fight was refused on a ring of one boxer whose row counts a fight
C5_Witness ==
    /\ FightCalled
    /\ last.err = ErrTwoBoxers
    /\ Len(ring) = 1
    /\ \E i \in DOMAIN boxers : boxers[i].fights > 0

\* C6: a boxer entering a ring of fewer than two stands last in
\* get_boxers(), behind those who entered before; a boxer offered to a ring
\* of two gets the ring-full error and the ring keeps its two boxers in
\* their order.
C6_EnterAppendsUntilFull ==
    [][(last'.op = "enter_ring" /\ last'.arg.class = "Boxer") =>
        IF Len(ring) < 2
        THEN /\ last'.err = NoError
             /\ get_boxers(ring') = Append(get_boxers(ring), last'.arg)
        ELSE /\ last'.err = ErrRingFull
             /\ get_boxers(ring') = get_boxers(ring)]_vars

\* two different boxers stand in the ring and the first was offered again
C6_Witness ==
    /\ last.op = "enter_ring"
    /\ last.err = ErrRingFull
    /\ Len(ring) = 2
    /\ ring[1].id # ring[2].id
    /\ last.arg = ring[1]

\* C7, as claimed: once a fight on a ring of two has attempted its stat
\* updates the ring is empty, whether or not they succeeded.
C7_RingEmptyAfterUpdatesAsClaimed ==
    (FightCalled /\ UpdateCalls(last.calls) # <<>>) => ring = <<>>

\* C7, amended: a fight that attempted its stat updates empties the ring
\* when both succeeded, and leaves the ring as it was when one raised.
C7_RingEmptyOnlyIfUpdatesSucceed ==
    [][(last'.op = "fight" /\ UpdateCalls(last'.calls) # <<>>) =>
        LET u == UpdateCalls(last'.calls) IN
        IF \A k \in 1..Len(u) : u[k].err = NoError
        THEN Len(u) = 2 /\ ring' = <<>>
        ELSE Len(ring) = 2 /\ ring' = ring /\ last'.err # NoError]_vars

\* the loser's update raised: the loser was deleted after entering
C7_Witness ==
    /\ FightCalled
    /\ Len(UpdateCalls(last.calls)) = 2
    /\ last.err = ErrNotFound
    /\ Len(ring) = 2

\* C8, as claimed: when the winner's 'win' update raises, the loser's
\* 'loss' update is attempted all the same.
C8_BothUpdatesAttemptedAsClaimed ==
    (FightCalled /\ \E k \in 1..Len(last.calls) :
                        last.calls[k].tag = "win" /\ last.calls[k].err # NoError)
        => \E k \in 1..Len(last.calls) : last.calls[k].tag = "loss"

\* C8, amended: when the winner's 'win' update raises, that failure
\* leaves fight at once and no 'loss' update is attempted; a 'loss'
\* update is attempted only after the 'win' update succeeded.
C8_LossAttemptedOnlyAfterWinSucceeded ==
    FightCalled =>
        LET u == UpdateCalls(last.calls) IN
        /\ (u # <<>> /\ u[1].err # NoError) =>
              Len(u) = 1 /\ u[1].tag = "win" /\ last.err = u[1].err
        /\ Len(u) >= 2 =>
              /\ Len(u) = 2
              /\ u[1].tag = "win" /\ u[1].err = NoError
              /\ u[2].tag = "loss"
        /\ last.winner # 0 => u # <<>>

\* the winner's update raised
C8_Witness ==
    /\ FightCalled
    /\ UpdateCalls(last.calls) # <<>>
    /\ UpdateCalls(last.calls)[1].err = ErrNotFound

\* C9: when the winner's update succeeds and the loser's fails, fight
\* raises and the winner's row keeps its fights and wins one higher; no
\* other row changes.
C9_WinnerUpdateNotRolledBack ==
    [][(/\ last'.op = "fight"
        /\ Len(UpdateCalls(last'.calls)) = 2
        /\ UpdateCalls(last'.calls)[1].err = NoError
        /\ UpdateCalls(last'.calls)[2].err # NoError) =>
        LET w == UpdateCalls(last'.calls)[1].id IN
        /\ last'.err = UpdateCalls(last'.calls)[2].err
        /\ last'.ret = None
        /\ DOMAIN boxers' = DOMAIN boxers
        /\ w \in DOMAIN boxers
        /\ boxers'[w] = [boxers[w] EXCEPT !.fights = @ + 1, !.wins = @ + 1]
        /\ \A i \in DOMAIN boxers : i # w => boxers'[i] = boxers[i]]_vars

\* the loser was not in the store and the winner's row counts the win
C9_Witness ==
    /\ FightCalled
    /\ Len(UpdateCalls(last.calls)) = 2
    /\ UpdateCalls(last.calls)[1].err = NoError
    /\ UpdateCalls(last.calls)[2].err = ErrNotFound
    /\ boxers[UpdateCalls(last.calls)[1].id].wins > 0

\* the service gave no sample: it timed out, the request failed, or its
\* answer is no decimal
NoSample(resp) ==
    \/ resp.kind \in {"Timeout", "ConnectionError"}
    \/ resp.kind = "Response" /\ resp.status >= 400
    \/ resp.kind = "Response" /\ ~IsFloatText(Strip(resp.text))

\* C10: when the randomness source fails during a fight of two, the error
\* leaves fight, no winner is chosen, no stat update is issued, and ring
\* and store are as they were.
C10_RandomFailureLeavesAllUnchanged ==
    [][(last'.op = "fight" /\ Len(ring) = 2 /\ NoSample(last'.response)) =>
        /\ last'.err \in {ErrTimedOut, ErrRequestFailed, ErrInvalidResponse}
        /\ last'.ret = None
        /\ last'.winner = 0
        /\ UpdateCalls(last'.calls) = <<>>
        /\ ring' = ring
        /\ boxers' = boxers]_vars

\* the service's answer could not be read, with two boxers in the ring
C10_Witness ==
    /\ FightCalled
    /\ last.err = ErrInvalidResponse
    /\ last.response.kind = "Response"
    /\ Len(ring) = 2

C12_UpdateRefusedLeavesStoreUnchanged ==
    [][last'.op = "update_boxer_stats" =>
        /\ last'.arg.result \notin {"win", "loss"} =>
              last'.err = ErrInvalidResult /\ boxers' = boxers
        /\ (/\ last'.arg.result \in {"win", "loss"}
            /\ last'.arg.boxer_id \notin DOMAIN boxers) =>
              last'.err = ErrNotFound /\ boxers' = boxers]_vars

\* an invalid result was given for an id that is not stored, the store
\* holding another boxer
C12_Witness ==
    /\ last.op = "update_boxer_stats"
    /\ last.err = ErrInvalidResult
    /\ last.arg.result = "draw"
    /\ last.arg.boxer_id \notin DOMAIN boxers
    /\ boxers # <<>>

\* C13: when the two ring members have equal fighting skill, delta is 0
\* and the probability is exactly one half: the first-entered boxer wins
\* for every sample below 0.5, the second-entered for every sample of 0.5
\* or above.
C13_EqualSkillsFightAtOneHalf ==
    [][(/\ last'.op = "fight"
        /\ last'.winner # 0
        /\ get_fighting_skill(ring[1]) = get_fighting_skill(ring[2])) =>
        LET sample == last'.calls[1].val IN
        /\ SkillDelta(ring[1], ring[2]) = 0
        /\ last'.probability = 50
        /\ sample < 50 => last'.winner = 1
        /\ sample >= 50 => last'.winner = 2]_vars

\* two boxers of equal skill who differ in reach and age fought, the
\* sample was 0.5 and the second-entered boxer won
C13_Witness ==
    /\ FightReturned
    /\ boxers[1].reach # boxers[2].reach
    /\ boxers[1].age # boxers[2].age
    /\ last.probability = 50
    /\ last.calls[1].val = 50
    /\ last.winner = 2
    /\ last.ret = boxers[2].name

\* C14: the probability fight computes is at least one half for every
\* pair of ring members (delta is never negative), so the second-entered
\* boxer never wins a fight whose sample is below 0.5.
C14_ProbabilityAtLeastOneHalf ==
    [][(last'.op = "fight" /\ Len(ring) = 2) =>
        /\ SkillDelta(ring[1], ring[2]) >= 0
        /\ last'.probability >= 50
        /\ (last'.winner # 0 /\ last'.calls[1].val < 50) => last'.winner = 1]_vars

\* the second-entered boxer was the stronger by far, the sample was below
\* 0.5 and the first-entered boxer won
C14_Witness ==
    /\ FightReturned
    /\ get_fighting_skill(Boxer(2, boxers[2]))
          > get_fighting_skill(Boxer(1, boxers[1])) + 1000
    /\ last.calls[1].val = 49
    /\ last.winner = 1
    /\ last.ret = boxers[1].name

\* C15: get_fighting_skill(boxer) is weight * len(name) + reach / 10 plus
\* -1 for an age below 25, -2 for an age above 35 and 0 for an age from 25
\* to 35; boxers that agree in weight, name length, reach and age have the
\* same skill; the call changes neither the ring nor the store.
C15_SkillFormula ==
    [][last'.op = "get_fighting_skill" =>
        LET b == last'.arg
            base == 100 * b.weight * Len(b.name) + b.reach
        IN  /\ last'.err = NoError
            /\ b.age < 25 => last'.ret_number = base - 100
            /\ b.age > 35 => last'.ret_number = base - 200
            /\ (25 <= b.age /\ b.age <= 35) => last'.ret_number = base
            /\ \A c \in SkillBoxers :
                  (/\ c.weight = b.weight
                   /\ Len(c.name) = Len(b.name)
                   /\ c.reach = b.reach
                   /\ c.age = b.age) => get_fighting_skill(c) = last'.ret_number
            /\ ring' = ring
            /\ boxers' = boxers]_vars

\* the skill of a boxer of 35 was asked for while a boxer stood in the ring
C15_Witness ==
    /\ last.op = "get_fighting_skill"
    /\ last.arg.age = 35
    /\ last.arg.name = "Fighter A"
    /\ last.ret_number = 100 * (150 * 9) + 722
    /\ Len(ring) = 1

\* competitor A of the worked example: 150 lb, a name of nine characters,
\* reach 72.2, age 21
IsCompetitorA(b) ==
    b.weight = 150 /\ Len(b.name) = 9 /\ b.reach = 722 /\ b.age = 21

\* competitor B of the worked example: 180 lb, a name of nine characters,
\* reach 77.5, age 24
IsCompetitorB(b) ==
    b.weight = 180 /\ Len(b.name) = 9 /\ b.reach = 775 /\ b.age = 24

\* C16, as claimed: get_fighting_skill returns 1356.22 for competitor A
\* and 1627.75 for competitor B.
C16_SkillsAsClaimed ==
    last.op = "get_fighting_skill" =>
        /\ IsCompetitorA(last.arg) => last.ret_number = 135622
        /\ IsCompetitorB(last.arg) => last.ret_number = 162775

\* C16, amended: get_fighting_skill returns 1356.22 for competitor A and
\* 1626.75 for competitor B, whose age of 24 is below 25 and takes the
\* modifier -1.
C16_SkillsOfTheWorkedExample ==
    last.op = "get_fighting_skill" =>
        /\ IsCompetitorA(last.arg) => last.ret_number = 135622
        /\ IsCompetitorB(last.arg) => last.ret_number = 162675

\* the skill of competitor B was asked for
C16_Witness ==
    /\ last.op = "get_fighting_skill"
    /\ IsCompetitorB(last.arg)
    /\ last.ret_number = 162675

\* the two ring members r are competitors A and B, in either order
CompetitorsAB(r) ==
    /\ Len(r) = 2
    /\ \/ IsCompetitorA(r[1]) /\ IsCompetitorB(r[2])
       \/ IsCompetitorB(r[1]) /\ IsCompetitorA(r[2])

\* C17, as claimed: when A and B fight, fight returns B's name for every
\* sample in [0, 1), whichever of the two entered first.
C17_StrongerWinsAsClaimed ==
    [][(/\ last'.op = "fight"
        /\ CompetitorsAB(ring)
        /\ last'.err = NoError
        /\ last'.calls[1].val < 100) =>
        \E k \in 1..2 : IsCompetitorB(ring[k]) /\ last'.ret = ring[k].name]_vars

\* C17, amended: when A and B fight, the probability is 1.0 and fight
\* returns the name of whichever of the two entered first, for every
\* sample in [0, 1).
C17_FirstEnteredWinsAtSaturation ==
    [][(/\ last'.op = "fight"
        /\ CompetitorsAB(ring)
        /\ last'.winner # 0
        /\ last'.calls[1].val < 100) =>
        /\ last'.probability = 100
        /\ last'.winner = 1
        /\ last'.err = NoError
        /\ last'.ret = ring[1].name]_vars

\* A entered first, B second, the sample was 0.99 and A won
C17_Witness ==
    /\ FightReturned
    /\ IsCompetitorA(Boxer(1, boxers[1]))
    /\ IsCompetitorB(Boxer(2, boxers[2]))
    /\ last.calls[1].val = 99
    /\ last.ret = boxers[1].name

\* C18: the Boxer value get_boxer_by_id returns carries the weight class
\* of its weight, assigned when the value was made.
C18_BoxerCarriesItsWeightClass ==
    (last.op = "get_boxer_by_id" /\ last.err = NoError) =>
        last.ret_boxer.weight_class =
            get_weight_class(last.ret_boxer.weight).ret

\* the rank of a weight class, lightest first
ClassRank(weight_class) ==
    CASE weight_class = "FEATHERWEIGHT" -> 1
      [] weight_class = "LIGHTWEIGHT" -> 2
      [] weight_class = "MIDDLEWEIGHT" -> 3
      [] weight_class = "HEAVYWEIGHT" -> 4

\* C19: get_weight_class(w) is FEATHERWEIGHT from 125 to below 133,
\* LIGHTWEIGHT from 133 to below 166, MIDDLEWEIGHT from 166 to below 203,
\* HEAVYWEIGHT from 203, and raises for w below 125; no lighter valid
\* weight has a class of higher rank.
C19_WeightClassBands ==
    last.op = "get_weight_class" =>
        LET w == last.arg.weight IN
        /\ w < 125 => last.err = ErrWeightBelowClasses
        /\ (125 <= w /\ w < 133) =>
              last.err = NoError /\ last.ret = "FEATHERWEIGHT"
        /\ (133 <= w /\ w < 166) =>
              last.err = NoError /\ last.ret = "LIGHTWEIGHT"
        /\ (166 <= w /\ w < 203) =>
              last.err = NoError /\ last.ret = "MIDDLEWEIGHT"
        /\ w >= 203 => last.err = NoError /\ last.ret = "HEAVYWEIGHT"
        /\ \A v \in WeightClassInputs :
              (125 <= v /\ v <= w) =>
                  ClassRank(get_weight_class(v).ret) <= ClassRank(last.ret)

\* the class of 203 lb was asked for
C19_Witness ==
    /\ last.op = "get_weight_class"
    /\ last.arg.weight = 203
    /\ last.ret = "HEAVYWEIGHT"

\* C20: create_boxer raises the error of the first check that fails, in
\* the order weight below 125, height not above 0, reach not above 0, age
\* outside 18..40, and then executes no statement on the table and leaves
\* the store as it was; arguments that pass every check (weight 125, age
\* 18 and age 40 among them) get no validation error.
C20_CreateValidatesInOrder ==
    [][last'.op = "create_boxer" =>
        LET a == last'.arg
            bad_weight == a.weight < 125
            bad_height == a.height <= 0
            bad_reach == a.reach <= 0
            bad_age == a.age < 18 \/ a.age > 40
        IN  /\ bad_weight => last'.err = ErrInvalidWeight
            /\ (~bad_weight /\ bad_height) => last'.err = ErrInvalidHeight
            /\ (~bad_weight /\ ~bad_height /\ bad_reach) =>
                  last'.err = ErrInvalidReach
            /\ (~bad_weight /\ ~bad_height /\ ~bad_reach /\ bad_age) =>
                  last'.err = ErrInvalidAge
            /\ (bad_weight \/ bad_height \/ bad_reach \/ bad_age) =>
                  boxers' = boxers /\ last'.calls = <<>>
            /\ ~(bad_weight \/ bad_height \/ bad_reach \/ bad_age) =>
                  /\ last'.err \in {NoError, ErrAlreadyExists}
                  /\ last'.calls # <<>>
                  /\ ~NameExists(boxers, a.name) =>
                        /\ last'.err = NoError
                        /\ \E i \in DOMAIN boxers' : boxers'[i].name = a.name]_vars

\* a call with a bad weight, a bad height and a bad age was refused for
\* its weight, the store holding a boxer of 125 lb and 18 years
C20_Witness ==
    /\ last.op = "create_boxer"
    /\ last.err = ErrInvalidWeight
    /\ last.arg.weight = 124
    /\ last.arg.height = 0
    /\ last.arg.age = 41
    /\ \E i \in DOMAIN boxers : boxers[i].weight = 125 /\ boxers[i].age = 18

CounterPreservingCalls ==
    {"create_boxer", "delete_boxer", "get_boxer_by_id", "get_boxer_by_name",
     "get_leaderboard", "enter_ring", "clear_ring", "get_boxers",
     "get_fighting_skill"}

\* C23: create_boxer, delete_boxer, get_boxer_by_id, get_boxer_by_name,
\* get_leaderboard, enter_ring, clear_ring, get_boxers and
\* get_fighting_skill leave the fights and wins of every stored boxer as
\* they were, and remove no boxer but the one delete_boxer names; fights
\* or wins of a stored boxer change only in a step of update_boxer_stats
\* or fight.
C23_CountersChangeOnlyThroughUpdate ==
    [][/\ last'.op \in CounterPreservingCalls =>
              \A i \in DOMAIN boxers :
                  \/ last'.op = "delete_boxer" /\ last'.arg.boxer_id = i
                  \/ /\ i \in DOMAIN boxers'
                     /\ boxers'[i].fights = boxers[i].fights
                     /\ boxers'[i].wins = boxers[i].wins
       /\ (\E i \in DOMAIN boxers \cap DOMAIN boxers' :
              \/ boxers'[i].fights # boxers[i].fights
              \/ boxers'[i].wins # boxers[i].wins) =>
              last'.op \in {"update_boxer_stats", "fight"}]_vars

\* a boxer was deleted while another who has fought and won stays stored
C23_Witness ==
    /\ last.op = "delete_boxer"
    /\ last.err = NoError
    /\ \E i \in DOMAIN boxers : boxers[i].fights = 2 /\ boxers[i].wins = 1

\* the ids of the rows of a leaderboard, in order
BoardIds(rows) == [k \in 1..Len(rows) |-> rows[k].id]

C25_RowsCarryPercentageAndClass ==
    (last.op = "get_leaderboard" /\ last.err = NoError) =>
        \A k \in 1..Len(last.ret_list) :
            LET row == last.ret_list[k]
                off == 1000 * row.wins - row.win_pct * row.fights
            IN  /\ 2 * off <= row.fights
                /\ 2 * (0 - off) <= row.fights
                /\ (row.wins = 9 /\ row.fights = 12) => row.win_pct = 750
                /\ (row.wins = 10 /\ row.fights = 25) => row.win_pct = 400
                /\ row.weight = boxers[row.id].weight
                /\ row.weight_class = get_weight_class(row.weight).ret
                /\ row.weight < 133 => row.weight_class = "FEATHERWEIGHT"
                /\ row.weight >= 203 => row.weight_class = "HEAVYWEIGHT"

\* a heavyweight of 2 wins in 3 fights is listed with 66.7
C25_Witness ==
    /\ last.op = "get_leaderboard"
    /\ last.err = NoError
    /\ \E k \in 1..Len(last.ret_list) :
          /\ last.ret_list[k].wins = 2
          /\ last.ret_list[k].fights = 3
          /\ last.ret_list[k].win_pct = 667
          /\ last.ret_list[k].weight_class = "HEAVYWEIGHT"

\* C26: delete_boxer(id) on a stored id removes that row and leaves every
\* other row as it was; get_boxer_by_id, update_boxer_stats and a second
\* delete_boxer for the id, and get_boxer_by_name for the name of the
\* deleted boxer, then raise the not-found error.  delete_boxer on an id
\* that is not stored raises the not-found error and leaves the store as
\* it was.
C26_DeleteRemovesExactlyOne ==
    [][last'.op = "delete_boxer" =>
        LET id == last'.arg.boxer_id IN
        IF id \in DOMAIN boxers
        THEN /\ last'.err = NoError
             /\ DOMAIN boxers' = (DOMAIN boxers) \ {id}
             /\ \A i \in DOMAIN boxers' : boxers'[i] = boxers[i]
             /\ get_boxer_by_id(boxers', id).err = ErrNotFound
             /\ get_boxer_by_name(boxers', boxers[id].name).err = ErrNotFound
             /\ \A result \in {"win", "loss"} :
                   update_boxer_stats(boxers', id, result).err = ErrNotFound
             /\ delete_boxer(boxers', id).err = ErrNotFound
             /\ delete_boxer(boxers', id).store = boxers'
        ELSE /\ last'.err = ErrNotFound
             /\ boxers' = boxers]_vars

\* a boxer was deleted and another, who has fought, is still stored
C26_Witness ==
    /\ last.op = "delete_boxer"
    /\ last.err = NoError
    /\ last.arg.boxer_id \notin DOMAIN boxers
    /\ \E i \in DOMAIN boxers : boxers[i].fights > 0

\* C27: clear_ring raises nothing and leaves the ring empty, whether the
\* ring held 0, 1 or 2 boxers; a second clear_ring would leave the state
\* the first left; the store is as it was.
C27_ClearRingIsIdempotent ==
    [][last'.op = "clear_ring" =>
        /\ last'.err = NoError
        /\ ring' = <<>>
        /\ clear_ring(ring') = ring'
        /\ clear_ring(clear_ring(ring)) = clear_ring(ring)
        /\ boxers' = boxers]_vars

\* clear_ring was called and the ring is empty, the store holding a boxer
C27_Witness ==
    /\ last.op = "clear_ring"
    /\ ring = <<>>
    /\ boxers # <<>>

\* C28: enter_ring with a value that is no Boxer raises the type error
\* and leaves the ring as it was, whatever the size of the ring, a ring of
\* two included; an enter_ring that succeeds appends its boxer and nothing
\* else; no enter_ring changes the store.
C28_TypeCheckedBeforeCapacity ==
    [][last'.op = "enter_ring" =>
        /\ last'.arg.class # "Boxer" =>
              last'.err = ErrInvalidType /\ ring' = ring
        /\ last'.err = NoError => ring' = Append(ring, last'.arg)
        /\ last'.err # NoError => ring' = ring
        /\ boxers' = boxers]_vars

\* a value that is no Boxer was offered to a ring of two
C28_Witness ==
    /\ last.op = "enter_ring"
    /\ last.arg = NotABoxer
    /\ last.err = ErrInvalidType
    /\ Len(ring) = 2

\* C29: nothing a caller does to the list get_boxers returned (appending
\* to it, clearing it) changes the members of the ring.
C29_ReturnedListIsASnapshot ==
    [][last'.op \in {"returned.append", "returned.clear"} => ring' = ring]_vars

C31_SampleWithinUnitInterval ==
    (FightCalled /\ last.calls # <<>> /\ last.calls[1].err = NoError) =>
        /\ 0 <= last.calls[1].val
        /\ last.calls[1].val < 100

\* C34: the calls of one fight come in a fixed order: the sample is asked
\* for first and before any stat update, the winner's 'win' update comes
\* before the loser's 'loss' update, and the ring is cleared only after
\* both updates were issued.
C34_FightStepsInFixedOrder ==
    FightCalled =>
        LET c == last.calls IN
        \A k \in 1..Len(c) :
            /\ c[k].fn = "get_random" <=> k = 1
            /\ c[k].fn = "update_boxer_stats" =>
                  c[1].fn = "get_random" /\ c[1].err = NoError
            /\ c[k].tag = "win" => k = 2
            /\ c[k].tag = "loss" => k = 3 /\ c[2].tag = "win"
            /\ c[k].fn = "clear_ring" =>
                  /\ k = 4
                  /\ c[2].tag = "win" /\ c[3].tag = "loss"

\* a fight of two different boxers made its four calls and the second
\* boxer won
C34_Witness ==
    /\ FightReturned
    /\ Len(last.calls) = 4
    /\ last.winner = 2
    /\ last.calls[2].id # last.calls[3].id

\* C38: the ring position that wins a fight is fixed by the absolute
\* difference of the two skills and the sample alone, not by which boxer
\* is the stronger: the same two boxers entered in the opposite order,
\* with the same sample, meet at the same probability, the same position
\* wins, and so the other boxer wins.
C38_SwappedEntryOrderSwapsWinner ==
    [][(last'.op = "fight" /\ last'.winner # 0) =>
        LET swapped == fight(<<ring[2], ring[1]>>, boxers, last'.response)
            skill_1 == get_fighting_skill(ring[1])
            skill_2 == get_fighting_skill(ring[2])
            won == last'.winner
        IN  /\ won = WinnerPosition(last'.calls[1].val,
                                    normalized_delta(Abs(skill_1 - skill_2)))
            /\ swapped.probability = last'.probability
            /\ swapped.winner = won
            /\ last'.calls[2].id = ring[won].id
            /\ swapped.calls[2].id = ring[3 - won].id
            /\ last'.err = NoError =>
                  /\ swapped.err = NoError
                  /\ last'.ret = ring[won].name
                  /\ swapped.ret = ring[3 - won].name
                  /\ swapped.ret # last'.ret]_vars

\* the weaker boxer entered first and won on a sample below the
\* probability, the stronger being ahead by less than the gap that
\* saturates the probability
C38_Witness ==
    /\ FightReturned
    /\ get_fighting_skill(Boxer(1, boxers[1]))
          < get_fighting_skill(Boxer(2, boxers[2]))
    /\ last.probability = 74
    /\ last.calls[1].val = 73
    /\ last.winner = 1
    /\ last.ret = boxers[1].name

\* C39: after any sequence of create_boxer, delete_boxer,
\* update_boxer_stats and fight calls, fights that fail part-way included,
\* every stored boxer has 0 <= wins <= fights, and every win_pct of a
\* leaderboard lies between 0.0 and 100.0.
C39_WinsNeverExceedFights ==
    /\ \A i \in DOMAIN boxers :
          0 <= boxers[i].wins /\ boxers[i].wins <= boxers[i].fights
    /\ last.op = "get_leaderboard" =>
          \A k \in 1..Len(last.ret_list) :
              /\ 0 <= last.ret_list[k].win_pct
              /\ last.ret_list[k].win_pct <= 1000
              /\ last.ret_list[k].wins <= last.ret_list[k].fights

\* a fight failed on its loser's update after the winner's second win in
\* two fights was counted
C39_Witness ==
    /\ FightCalled
    /\ last.err = ErrNotFound
    /\ Len(UpdateCalls(last.calls)) = 2
    /\ last.calls[2].id \in DOMAIN boxers
    /\ boxers[last.calls[2].id].wins = 2
    /\ boxers[last.calls[2].id].fights = 2

\* a call of thread t that appended to a ring other than the one it
\* checked: another call's append came in between
AppendedUnchecked(t) ==
    /\ threads[t].op = "enter_ring"
    /\ threads[t].pc = "done"
    /\ threads[t].err = NoError
    /\ threads[t].met # threads[t].seen

\* C35, as claimed: the ring never holds more than 2 boxers, also while
\* two enter_ring calls on it run in different threads with no lock and
\* their length checks and appends interleave.
C35_RingNeverAboveTwoAsClaimed == Len(ring) <= 2

\* C35, amended: a ring holds more than 2 boxers only when an enter_ring
\* call appended after another call's append had come between its length
\* check and its own append; calls that do not interleave so, and calls
\* made one at a time, never take the ring above 2.
C35_RingAboveTwoOnlyByInterleavedAppend ==
    /\ Len(ring) <= 2 + Cardinality({t \in DOMAIN threads :
                                        AppendedUnchecked(t)})
    /\ \A t \in DOMAIN threads :
          threads[t].pc = "append" => threads[t].seen < 2

\* both calls passed the length check on a ring of one boxer and both
\* appended: the ring holds three
C35_Witness ==
    /\ \A t \in DOMAIN threads :
          threads[t].op = "enter_ring" /\ threads[t].pc = "done"
          /\ threads[t].err = NoError /\ threads[t].seen = 1
    /\ DOMAIN threads = Threads
    /\ Len(ring) = 3

\* the call of thread t is an update_boxer_stats that returned
UpdateReturned(t) ==
    /\ threads[t].op = "update_boxer_stats"
    /\ threads[t].pc = "done"
    /\ threads[t].err = NoError

\* C36: whenever update_boxer_stats returns without raising, the fights
\* counter of the boxer with its id has been incremented in the table,
\* also when a delete_boxer for that id ran between its existence check
\* and its UPDATE: then it reports not-found, not success.
C36_ReturnedUpdateHasCounted ==
    [][\A t \in DOMAIN threads :
          (/\ threads[t].op = "update_boxer_stats"
           /\ threads[t].pc # "done"
           /\ threads'[t].pc = "done"
           /\ threads'[t].err = NoError) =>
              LET id == threads[t].arg.boxer_id IN
              /\ id \in DOMAIN boxers'
              /\ id \in DOMAIN boxers
              /\ boxers'[id].fights = boxers[id].fights + 1]_vars

\* C37: two update_boxer_stats calls on the same stored id that run at the
\* same time both take effect in every interleaving: each returns, and
\* once both have, fights is 2 above what it was and wins is higher by the
\* number of 'win' results among the two; at every point the counters show
\* exactly the calls that have returned.
C37_ConcurrentUpdatesBothCount ==
    \A id \in Ids :
        (/\ DOMAIN threads = Threads
         /\ \A t \in Threads :
               /\ threads[t].op = "update_boxer_stats"
               /\ threads[t].arg.boxer_id = id
               /\ threads[t].arg.result \in {"win", "loss"}
               /\ id \in DOMAIN threads[t].before.boxers) =>
            LET returned == {t \in Threads : threads[t].pc = "done"}
                wins == {t \in returned : threads[t].arg.result = "win"}
            IN  /\ \A t \in returned :
                      threads[t].err = NoError /\ threads[t].met = 1
                /\ id \in DOMAIN boxers
                /\ \A t \in Threads :
                      /\ boxers[id].fights =
                            threads[t].before.boxers[id].fights
                                + Cardinality(returned)
                      /\ boxers[id].wins =
                            threads[t].before.boxers[id].wins
                                + Cardinality(wins)
                      /\ \A i \in DOMAIN threads[t].before.boxers :
                            i # id => /\ i \in DOMAIN boxers
                                      /\ boxers[i] = threads[t].before.boxers[i]

\* a 'win' and a 'loss' for the same boxer both returned, one of them
\* having run its SELECT before and its UPDATE after the other's UPDATE
C37_Witness ==
    /\ DOMAIN threads = Threads
    /\ \A t \in Threads : UpdateReturned(t) /\ threads[t].arg.boxer_id = 1
    /\ {threads[t].arg.result : t \in Threads} = {"win", "loss"}
    /\ \E t \in Threads : threads[t].crossed = 1
    /\ boxers[1].fights = 2
    /\ boxers[1].wins = 1

\* the rows of the table that hold the name
RowsNamed(store, name) == {i \in DOMAIN store : store[i].name = name}

\* the row create_boxer stores for the arguments arg
CreatedRow(arg) ==
    [name |-> arg.name, weight |-> arg.weight, height |-> arg.height,
     reach |-> arg.reach, age |-> arg.age, fights |-> 0, wins |-> 0]

\* C33: when two create_boxer calls with the same name and valid fields
\* run at the same time, their existence checks and inserts interleaved in
\* any order, at most one of them succeeds and the other raises the
\* already-exists error; the table ends with exactly one boxer of that
\* name, who holds the fields of the call that succeeded.
C33_ConcurrentCreatesOneSucceeds ==
    (/\ DOMAIN threads = Threads
     /\ \A t, u \in Threads :
           /\ threads[t].op = "create_boxer"
           /\ ValidationError(threads[t].arg.weight, threads[t].arg.height,
                              threads[t].arg.reach, threads[t].arg.age)
                 = NoError
           /\ threads[t].arg.name = threads[u].arg.name) =>
        LET name == threads[1].arg.name
            before == threads[1].before.boxers
            succeeded == {t \in Threads : /\ threads[t].pc = "done"
                                          /\ threads[t].err = NoError}
            raised == {t \in Threads : /\ threads[t].pc = "done"
                                       /\ threads[t].err # NoError}
        IN  /\ Cardinality(succeeded) <= 1
            /\ \A t \in raised : threads[t].err = ErrAlreadyExists
            /\ Cardinality(RowsNamed(boxers, name)) <= 1
            /\ \A t \in succeeded :
                  \E i \in RowsNamed(boxers, name) :
                      boxers[i] = CreatedRow(threads[t].arg)
            /\ succeeded \cup raised = Threads =>
                  /\ Cardinality(RowsNamed(boxers, name)) = 1
                  /\ RowsNamed(before, name) = {} =>
                        Cardinality(succeeded) = 1
                  /\ \A i \in RowsNamed(before, name) :
                        /\ succeeded = {}
                        /\ i \in DOMAIN boxers /\ boxers[i] = before[i]

\* both calls found no boxer of the name; the call with weight 180
\* inserted first and the INSERT of the call with weight 150 was refused
C33_Witness ==
    /\ DOMAIN threads = Threads
    /\ \A t \in Threads :
          /\ threads[t].op = "create_boxer"
          /\ threads[t].pc = "done"
          /\ threads[t].seen = 0
          /\ threads[t].arg.name = "Bob"
    /\ \E t, u \in Threads :
          /\ threads[t].err = NoError /\ threads[t].arg.weight = 180
          /\ threads[u].err = ErrAlreadyExists /\ threads[u].arg.weight = 150
          /\ threads[u].crossed = 1
    /\ \E i \in DOMAIN boxers : boxers[i].name = "Bob" /\ boxers[i].weight = 180

\* the ids of the boxers in the ring of thread t when its fight began
PairOf(t) ==
    {threads[t].before.ring[k].id : k \in 1..Len(threads[t].before.ring)}

\* the fight of thread t returned
FightOfThreadReturned(t) ==
    /\ threads[t].op = "fight"
    /\ threads[t].pc = "done"
    /\ threads[t].err = NoError

\* C32: when two fights run at the same time on two RingModel instances
\* that hold disjoint pairs of stored boxers, their store steps
\* interleaved in any order, then after both have returned each of the
\* four boxers has one fight more, exactly one boxer of each pair has one
\* win more, and both rings are empty.
C32_ConcurrentFightsOnDisjointPairs ==
    (/\ DOMAIN threads = Threads
     /\ \A t \in Threads : threads[t].op = "fight"
     /\ PairOf(1) \cap PairOf(2) = {}) =>
        /\ \A t \in Threads :
              threads[t].pc = "done" =>
                  threads[t].err \in {NoError, ErrTimedOut, ErrRequestFailed,
                                       ErrInvalidResponse}
        /\ (\A t \in Threads : FightOfThreadReturned(t)) =>
              \A t \in Threads :
                  LET before == threads[t].before.boxers
                      winners == {i \in PairOf(t) :
                                    boxers[i].wins = before[i].wins + 1}
                  IN  /\ threads[t].ring = <<>>
                      /\ Cardinality(PairOf(t)) = 2
                      /\ DOMAIN boxers = DOMAIN before
                      /\ \A i \in PairOf(t) :
                            /\ boxers[i].fights = before[i].fights + 1
                            /\ boxers[i].wins \in {before[i].wins,
                                                    before[i].wins + 1}
                      /\ Cardinality(winners) = 1
                      /\ \A i \in winners :
                            threads[t].ret = boxers[i].name

\* both fights returned, the second-entered boxer of the one ring and the
\* first-entered of the other having won, after an UPDATE of one fight had
\* come between a SELECT and the UPDATE of the other
C32_Witness ==
    /\ DOMAIN threads = Threads
    /\ \A t \in Threads : FightOfThreadReturned(t)
    /\ PairOf(1) = {1, 2}
    /\ PairOf(2) = {3, 4}
    /\ threads[1].position = 2
    /\ threads[2].position = 1
    /\ \E t \in Threads : threads[t].crossed > 0
    /\ \A i \in RingIds : boxers[i].fights = 1

====
